---- MODULE Spec2Model ----
(***************************************************************************)
(* Verification model of the discharge workflow robot                      *)
(* (MBU_Journal_og_Rontgen_Aflevering_og_Journalisering).                  *)
(*                                                                         *)
(* The module holds one state machine per unit of the source, each with    *)
(* its own specification:                                                   *)
(*   SpecRetry     retry_on_connection_error.wrapper   (romexis/db_handler) *)
(*   SpecWait      wait_for_control                    (edi_portal_functions)*)
(*   SpecPipeline  edi_portal_handler and its steps    (edi_portal_handler) *)
(*   SpecGuards    the three check-then-create guards  (process_item,      *)
(*                 create_medical_record)                                   *)
(*   Spec          process_item                        (process_item)       *)
(*   SpecDisappear wait_for_control_to_disappear       (edi_portal_functions)*)
(*   SpecWaits     the four waiting loops, under fairness                   *)
(*                                                     (edi_portal_functions)*)
(*   SpecCpr       cpr_to_birthdate                    (helper_functions)   *)
(*   SpecClinic    the extern clinic through the EDI portal                *)
(*                                           (initalize, process_item)     *)
(* A specification only moves the variables of its own unit; the variables *)
(* of the other units stay at their idle values.                           *)
(***************************************************************************)
EXTENDS Integers, Sequences, FiniteSets, Bags, TLC

VARIABLES
    \* ---- retry_on_connection_error.wrapper (db_handler.py:27-69)
    r_pc,             \* "loop": in the for loop; "after": loop exhausted; "done": wrapper left
    max_attempts,     \* decorator argument
    delay,            \* decorator argument
    backoff,          \* decorator argument
    attempt,          \* loop variable of `for attempt in range(1, max_attempts + 1)`
    current_delay,    \* local current_delay
    last_exception,   \* local last_exception (NoError = None)
    r_calls,          \* number of invocations of the wrapped func so far
    r_sleeps,         \* sequence of the arguments of time.sleep so far
    r_outcomes,       \* outcome of each invocation of func, in order
    r_result,         \* how the wrapper ended (NoResult while running)
    \* ---- wait_for_control (edi_portal_functions.py:23-57)
    w_pc,             \* "test": at the while test; "query": inside control.Exists;
                      \* "sleep": inside time.sleep; "returned" / "timeout": left
    w_timeout,        \* argument timeout
    w_interval,       \* argument retry_interval
    w_clock,          \* time.time(), counted from the invocation
    w_end_time,       \* local end_time
    w_wake,           \* the time at which the running query or sleep ends
    w_q,              \* duration of the running (or last) existence query
    w_polls,          \* number of existence queries completed
    w_errors,         \* number of existence queries that raised
    w_target,         \* the UI: "absent", "present" or "broken" (the query raises)
    w_since,          \* time from which the target has been present without a break
                      \* (NotPresent when it is not present)
    \* ---- wait_for_control_to_disappear (edi_portal_functions.py:60-89)
    d_pc,             \* "off", "test", "query", "sleep", "returned", "timeout"
    d_timeout,        \* argument timeout, in units of the sleep (0.5 s)
    d_clock,          \* time.time(), counted from the invocation
    d_end_time,       \* local end_time
    d_wake,           \* the time at which the running query or sleep ends
    d_q,              \* duration of the running (or last) existence query
    d_polls,          \* number of existence queries completed
    d_target,         \* the UI: "absent", "present" or "broken" (the query raises)
    d_seenAbsent,     \* a completed query ended while the element was absent
    d_errors,         \* polls of this wait whose query raised
    d_result,         \* "none", "True" (returned) or "TimeoutError" (raised)
    \* ---- edi_portal_handler (edi_portal_handler.py:46-177) and the EDI portal
    h_pc,             \* "idle", "main" (first loop), "tail" (second loop), "done",
                      \* "failed" (an error left the handler), "crashed" (worker killed)
    h_step,           \* index into pipeline of the step the loop is at (1..NumSteps)
    skip_steps,       \* local skip_steps
    h_invoked,        \* per step: how often it was invoked in this run
    h_returned,       \* per step: "no" (not invoked), "True", "False", "None", "raised"
    h_error,          \* the error that left the handler (NoStepError if none)
    h_timedOut,       \* a UI target awaited in this run did not appear within its timeout
    h_result,         \* the handler's return value (NoPath until it returns)
    h_runs,           \* number of runs of the handler started for the item
    h_item,           \* the queue element and context of the work item
    ctx_subject,      \* EdiContext.subject
    ctx_receipt_path, \* EdiContext.receipt_path
    p_sent,           \* the portal's sent list (table dtSent), data rows in order
    p_form,           \* the subject typed into the portal's message form
    p_now,            \* the current day
    p_query,          \* what was typed into the portal's recipient search (lookup)
                      \* and the phone number the receiver was picked by (phone)
    \* ---- the three check-then-create guards (process_item.py:141-198,
    \*      create_medical_record.py:12-44) and the Solteq Tand document store
    g_pc,             \* "off" or "ready" (a caller may invoke a guard)
    g_item,           \* the patient of the work item: context cpr and queue key patient_cpr
    g_docs,           \* documents and journal notes stored in Solteq Tand (a bag)
    g_now,            \* the current day
    g_last,           \* what the last guard invocation did
    \* ---- process_item (process_item.py:201-282)
    pi_pc,            \* the statement process_item is at; "ended" after it was left
    pi_item,          \* arguments item_data (which required keys it has) and item_id (id)
    pi_runs,          \* number of invocations of process_item so far
    pi_error,         \* the exception that left the try body (NoExc if none)
    pi_attempt,       \* arguments of the last call of update_dashboard_step_run in this run
    pi_payload,       \* update_data handed to update_dashboard_step_run_by_id by that call
    pi_closes,        \* number of calls of close() in this run
    pi_last,          \* the last function process_item called in this run
    pi_trace,         \* the functions called in this run, in order
    pi_extfail,       \* an external collaborator has failed in this run
    pi_raised,        \* class of the exception that leaves process_item
    pi_delivered,     \* statuses the dashboard has received in this run
    pi_key,           \* item whose context values keyed the last report
    ctx_item_id,      \* context value item_id (0 until _setup_context has run)
    \* ---- upload-progress loop of edi_portal_upload_files
    \*      (edi_portal_functions.py:476-494)
    u_pc,             \* "test": at the while test; "wait": inside wait_for_control;
                      \* "sleep": inside time.sleep(5); "done": loop left
    u_timeout,        \* local timeout, the remaining budget
    u_element_gone,   \* local element_gone
    \* ---- receipt-download loop of edi_portal_get_journal_sent_receip
    \*      (edi_portal_functions.py:618-630)
    dl_pc,            \* "test": at the while test; "glob": inside download_path.glob;
                      \* "sleep": inside time.sleep(1); "returned" / "error": left
    dl_clock,         \* time.time()
    dl_start_time,    \* local start_time
    dl_wake,          \* the time at which the running glob or sleep ends
    dl_file,          \* whether Downloads holds a file matching Meddelelse*.pdf
    dl_result,        \* "none" while running; "receipt" or "FileNotFoundError"
    \* ---- cpr_to_birthdate (helper_functions.py:25-60)
    c_pc,             \* "off", "call" (about to be called) or "done"
    c_dd,             \* the day, month, two-digit year and personal number the
    c_mm,             \* argument was written from
    c_yy,
    c_ssss,
    c_damage,         \* how the written text was changed afterwards ("none": not)
    ssn,              \* argument ssn, a sequence of characters
    c_result,         \* what the call gave: a date or a ValueError (NoBirthdate before)
    \* ---- the extern clinic through the EDI portal (initalize.py:59-171,
    \*      process_item.py:116-138, edi_portal_functions.py:92-326)
    k_pc,             \* position: "extern", "contractor", "edi_open", "lookup", ...
    k_data,           \* extern_clinic_data[0]: contractorId and phoneNumber
    k_table,          \* phone numbers of the rows of the portal's recipient table
    k_search,         \* values typed into the portal's search box, in order
    k_phones,         \* phone numbers compared with the table rows, in order
    k_opens,          \* open_edi_portal calls of the function being run
    k_closes,         \* close_edi_portal calls of the function being run
    k_result          \* how the last function ended

retryVars == <<r_pc, max_attempts, delay, backoff, attempt, current_delay,
               last_exception, r_calls, r_sleeps, r_outcomes, r_result>>

waitVars == <<w_pc, w_timeout, w_interval, w_clock, w_end_time, w_wake, w_q,
              w_polls, w_errors, w_target, w_since>>

pipeVars == <<h_pc, h_step, skip_steps, h_invoked, h_returned, h_error, h_timedOut,
              h_result, h_runs, h_item, ctx_subject, ctx_receipt_path, p_sent,
              p_form, p_now, p_query>>

guardVars == <<g_pc, g_item, g_docs, g_now, g_last>>

disVars == <<d_pc, d_timeout, d_clock, d_end_time, d_wake, d_q, d_polls, d_target,
             d_seenAbsent, d_errors, d_result>>

itemVars == <<pi_pc, pi_item, pi_runs, pi_error, pi_attempt, pi_payload, pi_closes,
              pi_last, pi_trace, pi_extfail, pi_raised, pi_delivered, pi_key,
              ctx_item_id>>

upVars == <<u_pc, u_timeout, u_element_gone>>

dlVars == <<dl_pc, dl_clock, dl_start_time, dl_wake, dl_file, dl_result>>

cprVars == <<c_pc, c_dd, c_mm, c_yy, c_ssss, c_damage, ssn, c_result>>

clinicVars == <<k_pc, k_data, k_table, k_search, k_phones, k_opens, k_closes, k_result>>

vars == <<retryVars, waitVars, pipeVars, guardVars, itemVars, disVars, upVars, dlVars, cprVars, clinicVars>>

\* What the actions of one unit leave alone.
notRetry == <<waitVars, pipeVars, guardVars, itemVars, disVars, upVars, dlVars, cprVars, clinicVars>>
notWait == <<retryVars, pipeVars, guardVars, itemVars, disVars, upVars, dlVars, cprVars, clinicVars>>
notPipe == <<retryVars, waitVars, guardVars, itemVars, disVars, upVars, dlVars, cprVars, clinicVars>>
notGuard == <<retryVars, waitVars, pipeVars, itemVars, disVars, upVars, dlVars, cprVars, clinicVars>>
notItem == <<retryVars, waitVars, pipeVars, guardVars, disVars, upVars, dlVars, cprVars, clinicVars>>
notDis == <<retryVars, waitVars, pipeVars, guardVars, itemVars, upVars, dlVars, cprVars, clinicVars>>
notUp == <<retryVars, waitVars, pipeVars, guardVars, itemVars, disVars, dlVars, cprVars, clinicVars>>
notDl == <<retryVars, waitVars, pipeVars, guardVars, itemVars, disVars, upVars, cprVars, clinicVars>>
notCpr == <<retryVars, waitVars, pipeVars, guardVars, itemVars, disVars, upVars, dlVars, clinicVars>>
notClinic == <<retryVars, waitVars, pipeVars, guardVars, itemVars, disVars, upVars, dlVars, cprVars>>

(***************************************************************************)
(* Bounds of the model.                                                    *)
(***************************************************************************)
MaxAttemptsTried == 3   \* max_attempts ranges over 0..MaxAttemptsTried
MaxDelay == 2           \* delay ranges over 1..MaxDelay
MaxBackoff == 2         \* backoff ranges over 1..MaxBackoff
MaxTimeout == 4         \* timeout of a wait ranges over 0..MaxTimeout
MaxInterval == 2        \* retry_interval ranges over 1..MaxInterval
MaxRuns == 2            \* runs of the handler (retries) for one work item
TickDays == 15          \* days that pass in one step of the calendar
MaxDay == 45            \* the calendar stops at this day
MaxQueryTime == 0       \* one existence query lasts 0..MaxQueryTime (0: instantaneous)

(***************************************************************************)
(* Values shared by the EDI portal model.  Text is a sequence of           *)
(* characters, so that Python's `in` (substring) and `==` are what they    *)
(* are in the source.                                                      *)
(***************************************************************************)
NumMain == 12           \* the steps of pipeline[:-2]
NumSteps == 14          \* the steps of pipeline
Window == 30            \* timedelta(days=30)

NoName == <<"<None>">>  \* dict.get() of a missing key
NameA == <<"a">>
NameAB == <<"a", "b">>
BaseSubject == <<"S">>  \* value_data["edi_portal_content"]["subject"]
NoPath == <<>>          \* receipt_path = None
NoStepError == [step |-> 0, cls |-> "None", cause |-> "None", name |-> "None"]
NoQuery == [lookup |-> "none", phone |-> "none"]

\* The handler is not running and nothing has been sent.
PipeIdle ==
    /\ h_pc = "off"
    /\ h_step = 0
    /\ skip_steps = FALSE
    /\ h_invoked = [i \in 1..NumSteps |-> 0]
    /\ h_returned = [i \in 1..NumSteps |-> "no"]
    /\ h_error = NoStepError
    /\ h_timedOut = FALSE
    /\ h_result = NoPath
    /\ h_runs = 0
    /\ h_item = [patient_name |-> NoName, name |-> NoName, contractorId |-> "0",
                 phoneNumber |-> "0"]
    /\ ctx_subject = <<>>
    /\ ctx_receipt_path = NoPath
    /\ p_sent = <<>>
    /\ p_form = <<>>
    /\ p_now = 0
    /\ p_query = NoQuery

NotPresent == -1

\* wait_for_control is not running.
WaitIdle ==
    /\ w_pc = "idle"
    /\ w_timeout = 0
    /\ w_interval = 0
    /\ w_clock = 0
    /\ w_end_time = 0
    /\ w_wake = 0
    /\ w_q = 0
    /\ w_polls = 0
    /\ w_errors = 0
    /\ w_target = "absent"
    /\ w_since = NotPresent

\* wait_for_control_to_disappear is not running.
DisIdle ==
    /\ d_pc = "off"
    /\ d_timeout = 0
    /\ d_clock = 0
    /\ d_end_time = 0
    /\ d_wake = 0
    /\ d_q = 0
    /\ d_polls = 0
    /\ d_target = "present"
    /\ d_seenAbsent = FALSE
    /\ d_errors = 0
    /\ d_result = "none"

\* The upload-progress loop is not running.
UploadIdle ==
    /\ u_pc = "off"
    /\ u_timeout = 0
    /\ u_element_gone = FALSE

\* The receipt-download loop is not running.
DownloadIdle ==
    /\ dl_pc = "off"
    /\ dl_clock = 0
    /\ dl_start_time = 0
    /\ dl_wake = 0
    /\ dl_file = FALSE
    /\ dl_result = "none"

\* cpr_to_birthdate is not called.
NoBirthdate == [kind |-> "none", year |-> 0, month |-> 0, day |-> 0]

CprIdle ==
    /\ c_pc = "off"
    /\ c_dd = 0
    /\ c_mm = 0
    /\ c_yy = 0
    /\ c_ssss = 0
    /\ c_damage = "none"
    /\ ssn = <<>>
    /\ c_result = NoBirthdate

NoClinic == [contractorId |-> "None", phoneNumber |-> "None"]

\* No extern clinic is being checked.
ClinicIdle ==
    /\ k_pc = "off"
    /\ k_data = NoClinic
    /\ k_table = {}
    /\ k_search = <<>>
    /\ k_phones = <<>>
    /\ k_opens = 0
    /\ k_closes = 0
    /\ k_result = "none"

\* Values of the guards' and of process_item's state.
NoGuardCall ==
    [kind |-> "none", queried |-> FALSE, empty |-> FALSE, invoked |-> FALSE,
     changed |-> FALSE, error |-> "None"]

\* No guard has been invoked and the document store is not modelled.
GuardIdle ==
    /\ g_pc = "off"
    /\ g_item = [cpr |-> "none", patient_cpr |-> "none"]
    /\ g_docs = EmptyBag
    /\ g_now = 0
    /\ g_last = NoGuardCall

NoExc == [cls |-> "None", json |-> FALSE]
NoItem == [id |-> 0, has_ydernummer |-> FALSE, has_phone |-> FALSE]
NoAttempt == [status |-> "none", failure |-> "None", rerun |-> FALSE]
NoPayload == [status |-> "none", failure |-> "absent", rerun_config |-> <<>>]

\* process_item has not been invoked.
ItemIdle ==
    /\ pi_pc = "off"
    /\ pi_item = NoItem
    /\ pi_runs = 0
    /\ pi_error = NoExc
    /\ pi_attempt = NoAttempt
    /\ pi_payload = NoPayload
    /\ pi_closes = 0
    /\ pi_last = "none"
    /\ pi_trace = <<>>
    /\ pi_extfail = FALSE
    /\ pi_raised = "None"
    /\ pi_delivered = <<>>
    /\ pi_key = 0
    /\ ctx_item_id = 0

(***************************************************************************)
(* retry_on_connection_error (db_handler.py:15-73)                         *)
(***************************************************************************)
NoError == [cls |-> "None", code |-> "None", id |-> 0]
NoResult == [kind |-> "running"]

\* SQLSTATE codes the wrapper retries (db_handler.py:39).
ConnectionErrorCodes == {"08001", "08S01", "HYT00"}

\* What one invocation of the wrapped function can do: return a value, raise a
\* pyodbc.OperationalError (args[0] a SQLSTATE, or no args at all), or raise
\* any other exception.
OperationalErrorCodes == ConnectionErrorCodes \cup {"40001", "noargs"}
FuncOutcomes ==
    {[cls |-> "ok", code |-> "None"]}
    \cup {[cls |-> "OperationalError", code |-> c] : c \in OperationalErrorCodes}
    \cup {[cls |-> "Exception", code |-> "None"]}

\* db_handler.py:36 error_code = e.args[0] if e.args else None
error_code(e) == IF e.code = "noargs" THEN "None" ELSE e.code

IsConnectionError_RetryAll(e) == e.cls = "OperationalError"
\* db_handler.py:34,39 the except clause and the connection-error test
IsConnectionError(e) ==
    e.cls = "OperationalError" /\ error_code(e) \in ConnectionErrorCodes

ShouldSleep_Always(att, maxAtt) == att <= maxAtt
\* db_handler.py:40 if attempt < max_attempts
ShouldSleep(att, maxAtt) == att < maxAtt

NextDelay_NoBackoff(cur, bo) == cur
\* db_handler.py:50 current_delay *= backoff
NextDelay(cur, bo) == cur * bo

RetryInit ==
    /\ r_pc = "loop"
    /\ max_attempts \in 0..MaxAttemptsTried
    /\ delay \in 1..MaxDelay
    /\ backoff \in 1..MaxBackoff
    /\ attempt = 1
    /\ current_delay = delay
    /\ last_exception = NoError
    /\ r_calls = 0
    /\ r_sleeps = <<>>
    /\ r_outcomes = <<>>
    /\ r_result = NoResult
    /\ WaitIdle
    /\ PipeIdle
    /\ GuardIdle
    /\ ItemIdle
    /\ DisIdle
    /\ UploadIdle
    /\ DownloadIdle
    /\ CprIdle
    /\ ClinicIdle

RetryIdle ==
    /\ r_pc = "idle"
    /\ max_attempts = 0
    /\ delay = 0
    /\ backoff = 0
    /\ attempt = 0
    /\ current_delay = 0
    /\ last_exception = NoError
    /\ r_calls = 0
    /\ r_sleeps = <<>>
    /\ r_outcomes = <<>>
    /\ r_result = NoResult

\* One iteration of the for loop (db_handler.py:31-62): func is invoked once and
\* its outcome handled.
RetryAttempt ==
    /\ r_pc = "loop"
    /\ attempt <= max_attempts
    /\ UNCHANGED notRetry
    /\ \E o \in FuncOutcomes :
        LET e == [cls |-> o.cls, code |-> o.code, id |-> r_calls + 1] IN
        /\ r_calls' = r_calls + 1
        /\ r_outcomes' = Append(r_outcomes, e)
        /\ IF o.cls = "ok"
             THEN \* line 33: return func(*args, **kwargs)
                  /\ r_result' = [kind |-> "return", value |-> r_calls + 1]
                  /\ r_pc' = "done"
                  /\ UNCHANGED <<attempt, current_delay, last_exception, r_sleeps>>
           ELSE IF o.cls = "OperationalError"
             THEN \* line 35: last_exception = e
                  /\ last_exception' = e
                  /\ IF IsConnectionError(e)
                       THEN /\ IF ShouldSleep(attempt, max_attempts)
                                 THEN /\ r_sleeps' = Append(r_sleeps, current_delay)
                                      /\ current_delay' = NextDelay(current_delay, backoff)
                                 ELSE UNCHANGED <<r_sleeps, current_delay>>
                            /\ attempt' = attempt + 1
                            /\ r_pc' = IF attempt + 1 <= max_attempts THEN "loop" ELSE "after"
                            /\ UNCHANGED r_result
                       ELSE \* line 59: raise
                            /\ r_result' = [kind |-> "raise", cls |-> "OperationalError",
                                            error |-> e]
                            /\ r_pc' = "done"
                            /\ UNCHANGED <<attempt, current_delay, r_sleeps>>
           ELSE \* line 60-62: except Exception: raise
                  /\ r_result' = [kind |-> "raise", cls |-> "Exception", error |-> e]
                  /\ r_pc' = "done"
                  /\ UNCHANGED <<attempt, current_delay, last_exception, r_sleeps>>
    /\ UNCHANGED <<max_attempts, delay, backoff>>

\* The loop never ran (max_attempts < 1): control falls to line 65.
RetryLoopEmpty ==
    /\ r_pc = "loop"
    /\ UNCHANGED notRetry
    /\ attempt > max_attempts
    /\ r_pc' = "after"
    /\ UNCHANGED <<max_attempts, delay, backoff, attempt, current_delay,
                   last_exception, r_calls, r_sleeps, r_outcomes, r_result>>

\* db_handler.py:64-69: after the loop, raise ProcessError from last_exception;
\* with no last_exception the wrapper falls off its end and returns None.
RetryExhausted ==
    /\ r_pc = "after"
    /\ UNCHANGED notRetry
    /\ r_result' = IF last_exception # NoError
                     THEN [kind |-> "raise", cls |-> "ProcessError",
                           error |-> last_exception]
                     ELSE [kind |-> "return", value |-> 0]
    /\ r_pc' = "done"
    /\ UNCHANGED <<max_attempts, delay, backoff, attempt, current_delay,
                   last_exception, r_calls, r_sleeps, r_outcomes>>

RetryNext == RetryAttempt \/ RetryLoopEmpty \/ RetryExhausted

SpecRetry == RetryInit /\ [][RetryNext]_vars

(***************************************************************************)
(* wait_for_control (edi_portal_functions.py:23-57)                        *)
(*                                                                         *)
(* Time is counted in whole units from the invocation.  time.sleep(p)      *)
(* suspends for exactly p; an existence query lasts 0..MaxQueryTime and    *)
(* sees the UI as it is when the query ends.  The UI changes between two   *)
(* instants: a target that appears while the clock goes from t to t+1 is   *)
(* present from t+1 on.                                                    *)
(***************************************************************************)
TargetStates == {"absent", "present", "broken"}

WaitFinished == w_pc \in {"returned", "timeout"}

LoopContinues_Inclusive(now, endTime) == now <= endTime
\* edi_portal_functions.py:44 while time.time() < end_time
LoopContinues(now, endTime) == now < endTime

PollFinds_Never(target) == FALSE
PollFinds_UnlessAbsent(target) == target # "absent"
\* edi_portal_functions.py:45-50 the control is returned when Exists(0, 0) is
\* true; a query that raises is logged and counts as not found.
PollFinds(target) == target = "present"

WaitInit ==
    /\ w_pc = "test"
    /\ w_timeout \in 0..MaxTimeout
    /\ w_interval \in 1..MaxInterval
    /\ w_clock = 0
    /\ w_end_time = w_timeout      \* line 43: end_time = time.time() + timeout
    /\ w_wake = 0
    /\ w_q = 0
    /\ w_polls = 0
    /\ w_errors = 0
    /\ w_target \in TargetStates
    /\ w_since = IF w_target = "present" THEN 0 ELSE NotPresent
    /\ RetryIdle
    /\ PipeIdle
    /\ GuardIdle
    /\ ItemIdle
    /\ DisIdle
    /\ UploadIdle
    /\ DownloadIdle
    /\ CprIdle
    /\ ClinicIdle

\* line 44 true, lines 46-47: the existence query starts.
WaitPollStart ==
    /\ w_pc = "test"
    /\ LoopContinues(w_clock, w_end_time)
    /\ \E q \in 0..MaxQueryTime :
        /\ w_q' = q
        /\ w_wake' = w_clock + q
    /\ w_pc' = "query"
    /\ UNCHANGED <<w_timeout, w_interval, w_clock, w_end_time, w_polls, w_target,
                   w_since, w_errors>>
    /\ UNCHANGED notWait

\* lines 47-52: the query ends; the control is returned, or the loop sleeps.
WaitPollEnd ==
    /\ w_pc = "query"
    /\ w_clock = w_wake
    /\ w_polls' = w_polls + 1
    /\ w_errors' = IF w_target = "broken" THEN w_errors + 1 ELSE w_errors
    /\ IF PollFinds(w_target)
         THEN /\ w_pc' = "returned"
              /\ UNCHANGED w_wake
         ELSE /\ w_pc' = "sleep"
              /\ w_wake' = w_clock + w_interval
    /\ UNCHANGED <<w_timeout, w_interval, w_clock, w_end_time, w_q, w_target,
                   w_since>>
    /\ UNCHANGED notWait

\* line 52: time.sleep(retry_interval) is over; back to the while test.
WaitWake ==
    /\ w_pc = "sleep"
    /\ w_clock = w_wake
    /\ w_pc' = "test"
    /\ UNCHANGED <<w_timeout, w_interval, w_clock, w_end_time, w_wake, w_q,
                   w_polls, w_target, w_since, w_errors>>
    /\ UNCHANGED notWait

\* line 44 false, lines 54-57: raise TimeoutError.
WaitTimeout ==
    /\ w_pc = "test"
    /\ ~LoopContinues(w_clock, w_end_time)
    /\ w_pc' = "timeout"
    /\ UNCHANGED <<w_timeout, w_interval, w_clock, w_end_time, w_wake, w_q,
                   w_polls, w_target, w_since, w_errors>>
    /\ UNCHANGED notWait

\* Time passes while the function is inside a query or a sleep, and the UI
\* (which the program does not control) may change meanwhile.
WaitTick ==
    /\ w_pc \in {"query", "sleep"}
    /\ w_clock < w_wake
    /\ w_clock' = w_clock + 1
    /\ \E t \in TargetStates :
        /\ w_target' = t
        /\ w_since' = IF t # "present" THEN NotPresent
                      ELSE IF w_target = "present" THEN w_since
                      ELSE w_clock + 1
    /\ UNCHANGED <<w_pc, w_timeout, w_interval, w_end_time, w_wake, w_q, w_polls, w_errors>>
    /\ UNCHANGED notWait

WaitNext == WaitPollStart \/ WaitPollEnd \/ WaitWake \/ WaitTimeout \/ WaitTick

SpecWait == WaitInit /\ [][WaitNext]_vars

(***************************************************************************)
(* edi_portal_handler (edi_portal_handler.py:46-177) and the steps of its  *)
(* pipeline (edi_portal_functions.py).                                     *)
(*                                                                         *)
(* One behaviour is a series of runs of the handler for one work item      *)
(* against the same portal: a run ends by returning, by an error or by the *)
(* worker being killed, and the item is then retried from the top.         *)
(* wait_for_control is used by its contract: it returns the control or     *)
(* raises TimeoutError.  A step either finds all its UI targets ("ok"),    *)
(* misses one ("timeout") or hits another failure of the UI ("error").     *)
(***************************************************************************)
UiOutcomes == {"ok", "timeout", "error"}

\* The work items: the queue element's "patient_name", the context's
\* patient_name (item_data "name", process_item.py:60) and the contractor id of
\* the extern clinic.
Items ==
    [patient_name : {NoName, NameA}, name : {NameA, NameAB},
     contractorId : {"477052", "111111"}, phoneNumber : {"22334455"}]

\* s is a substring of m (Python: s in m).
IsSubstring(s, m) ==
    \E i \in 0..(Len(m) - Len(s)) : SubSeq(m, i + 1, i + Len(s)) = s

\* edi_portal_handler.py:80-85 the subject the handler computes.
HandlerSubject(item) ==
    IF item.contractorId = "477052"
      THEN BaseSubject \o <<" ", "H", " ">> \o item.patient_name
    ELSE IF item.contractorId = "470678"
      THEN BaseSubject \o <<" ", "B", " ">> \o item.patient_name
    ELSE BaseSubject \o <<" ">> \o item.patient_name

\* edi_portal_functions.py:376-389 the subject edi_portal_add_content types.
ContentSubjectName(item) ==
    IF item.contractorId \in {"477052", "470678"}
      THEN item.patient_name      \* queue_element.get("patient_name")
      ELSE item.name              \* get_context_values("patient_name")

ContentSubject(item) ==
    IF item.contractorId = "477052"
      THEN BaseSubject \o <<" ", "H", " ">> \o ContentSubjectName(item)
    ELSE IF item.contractorId = "470678"
      THEN BaseSubject \o <<" ", "B", " ">> \o ContentSubjectName(item)
    ELSE BaseSubject \o <<" ">> \o ContentSubjectName(item)

\* edi_portal_functions.py:745-764 the Gate's search of the sent list: a row
\* whose text contains the subject and whose date is within the last 30 days.
GateFinds(subject, rows, now) ==
    \E i \in 1..Len(rows) :
        /\ IsSubstring(subject, rows[i].msg)
        /\ rows[i].date > now - Window

\* edi_portal_functions.py:574-589 the receipt step's search: a row whose text
\* equals the subject.
ReceiptRowExists(subject, rows) ==
    \E i \in 1..Len(rows) : rows[i].msg = subject

\* edi_portal_handler.py:132, edi_portal_functions.py:657 the renamed receipt.
RenamedReceipt(item) ==
    <<"E", "D", "I", " ", "-", " ">> \o item.patient_name \o <<".", "p", "d", "f">>

\* process_item.py:154 the file name filter of _finalize_edi_portal_document,
\* f"%EDI Portal - {get_context_values('patient_name')}%", without the two
\* wildcards; the context value is item_data.get("name") (process_item.py:60).
ReceiptFilenameFilter(item) == <<"E", "D", "I", " ", "-", " ">> \o item.name

\* SQL LIKE with the pattern between two % wildcards.
LikeContains(pattern, text) == IsSubstring(pattern, text)

DownloadedReceipt == <<"M", ".", "p", "d", "f">>

\* The sent list at the start: empty, or holding a message that was sent for
\* another patient, whose name begins with this patient's name.
InitialSentLists ==
    {<<>>, <<[msg |-> BaseSubject \o <<" ">> \o NameAB, date |-> 0, run |-> 0]>>}

Truthy_Never(ret) == FALSE
Truthy_UnlessFalse(ret) == ret # "False"
\* edi_portal_handler.py:146 if step(context):
Truthy(ret) == ret = "True"

PipeInit ==
    /\ h_pc = "idle"
    /\ h_step = 0
    /\ skip_steps = FALSE
    /\ h_invoked = [i \in 1..NumSteps |-> 0]
    /\ h_returned = [i \in 1..NumSteps |-> "no"]
    /\ h_error = NoStepError
    /\ h_timedOut = FALSE
    /\ h_result = NoPath
    /\ h_runs = 0
    /\ h_item \in Items
    /\ ctx_subject = <<>>
    /\ ctx_receipt_path = NoPath
    /\ p_sent \in InitialSentLists
    /\ p_form = <<>>
    /\ p_now = 0
    /\ p_query = NoQuery
    /\ RetryIdle
    /\ WaitIdle
    /\ GuardIdle
    /\ ItemIdle
    /\ DisIdle
    /\ UploadIdle
    /\ DownloadIdle
    /\ CprIdle
    /\ ClinicIdle

\* edi_portal_handler.py:62-87 and 139: the handler is entered; the content
\* constant is read and checked and the subject is computed.
HandlerStart ==
    /\ h_pc \in {"idle", "done", "failed", "crashed"}
    /\ h_runs < MaxRuns
    /\ h_runs' = h_runs + 1
    /\ h_invoked' = [i \in 1..NumSteps |-> 0]
    /\ h_returned' = [i \in 1..NumSteps |-> "no"]
    /\ h_timedOut' = FALSE
    /\ h_result' = NoPath
    /\ ctx_receipt_path' = NoPath
    /\ skip_steps' = FALSE
    /\ \E constant \in {"valid", "missing"} :
        IF constant = "missing"
          THEN \* lines 63-75: raise RuntimeError
               /\ h_pc' = "failed"
               /\ h_error' = [step |-> 0, cls |-> "RuntimeError", cause |-> "None",
                              name |-> "None"]
               /\ h_step' = 0
               /\ ctx_subject' = <<>>
        ELSE IF h_item.patient_name = NoName
          THEN \* lines 81-85: str + None raises TypeError
               /\ h_pc' = "failed"
               /\ h_error' = [step |-> 0, cls |-> "TypeError", cause |-> "None",
                              name |-> "None"]
               /\ h_step' = 0
               /\ ctx_subject' = <<>>
          ELSE /\ h_pc' = "main"
               /\ h_error' = NoStepError
               /\ h_step' = 1
               /\ ctx_subject' = HandlerSubject(h_item)
    /\ UNCHANGED <<h_item, p_sent, p_form, p_now, p_query>>
    /\ UNCHANGED notPipe

\* edi_portal_handler.py:90-136: every step of the pipeline is a lambda, and
\* the __name__ of a lambda is "<lambda>".
StepName(i) == "<lambda>"

WrapStepError_Unchanged(i, cls) ==
    [step |-> i, cls |-> cls, cause |-> "None", name |-> StepName(i)]

\* edi_portal_handler.py:153-161, 167-175: `raise RuntimeError(f"Step
\* {step.__name__} failed: {e}") from e`.  step is the model's own index of the
\* step; name is what the message says about it.
WrapStepError(i, cls) ==
    [step |-> i, cls |-> "RuntimeError", cause |-> cls, name |-> StepName(i)]

NextStep_SkipsOne(i) == i + 2

\* edi_portal_handler.py:140, 164: the for loops take the steps of the
\* pipeline in the order of the list.
NextStep(i) == i + 1

\* edi_portal_handler.py:146-152: a main step was invoked and returned ret.
MainReturned(i, ret) ==
    /\ h_invoked' = [h_invoked EXCEPT ![i] = @ + 1]
    /\ h_returned' = [h_returned EXCEPT ![i] = ret]
    /\ skip_steps' = IF Truthy(ret) THEN TRUE ELSE skip_steps
    /\ h_step' = NextStep(i)
    /\ h_pc' = IF i = NumMain THEN "tail" ELSE "main"
    /\ UNCHANGED <<h_error, h_result>>

\* edi_portal_handler.py:153-161: a main step was invoked and raised.
MainRaised(i, cls) ==
    /\ h_invoked' = [h_invoked EXCEPT ![i] = @ + 1]
    /\ h_returned' = [h_returned EXCEPT ![i] = "raised"]
    /\ h_error' = WrapStepError(i, cls)
    /\ h_pc' = "failed"
    /\ UNCHANGED <<skip_steps, h_step, h_result>>

AfterTailStep_StopsEarly(i) == "done"

\* edi_portal_handler.py:164, 177: `for step in pipeline[-2:]`, then return.
AfterTailStep(i) == IF i = NumSteps THEN "done" ELSE "tail"

\* edi_portal_handler.py:166: a tail step was invoked and returned.
TailReturned(i, path) ==
    /\ h_invoked' = [h_invoked EXCEPT ![i] = @ + 1]
    /\ h_returned' = [h_returned EXCEPT ![i] = "None"]
    /\ ctx_receipt_path' = path
    /\ h_step' = NextStep(i)
    /\ h_pc' = AfterTailStep(i)
    /\ h_result' = IF i = NumSteps THEN path ELSE h_result   \* line 177
    /\ UNCHANGED <<h_error, skip_steps>>

\* edi_portal_handler.py:167-175: a tail step was invoked and raised.
TailRaised(i, cls) ==
    /\ h_invoked' = [h_invoked EXCEPT ![i] = @ + 1]
    /\ h_returned' = [h_returned EXCEPT ![i] = "raised"]
    /\ h_error' = WrapStepError(i, cls)
    /\ h_pc' = "failed"
    /\ UNCHANGED <<skip_steps, h_step, h_result, ctx_receipt_path>>

\* A main step that only drives the UI: it returns None, or raises the
\* TimeoutError of wait_for_control or another error.
UiOnlyStep(i) ==
    /\ h_pc = "main" /\ ~skip_steps /\ h_step = i
    /\ \E ui \in UiOutcomes :
        IF ui = "ok"
          THEN MainReturned(i, "None") /\ UNCHANGED h_timedOut
        ELSE IF ui = "timeout"
          THEN MainRaised(i, "TimeoutError") /\ h_timedOut' = TRUE
          ELSE MainRaised(i, "Exception") /\ UNCHANGED h_timedOut
    /\ UNCHANGED <<h_runs, h_item, ctx_subject, ctx_receipt_path, p_sent, p_form, p_now, p_query>>
    /\ UNCHANGED notPipe

\* edi_portal_handler.py:142-144: a main step is passed over.
HandlerSkipStep ==
    /\ h_pc = "main" /\ skip_steps
    /\ h_step' = NextStep(h_step)
    /\ h_pc' = IF h_step = NumMain THEN "tail" ELSE "main"
    /\ UNCHANGED <<skip_steps, h_invoked, h_returned, h_error, h_timedOut, h_result,
                   h_runs, h_item, ctx_subject, ctx_receipt_path, p_sent, p_form, p_now, p_query>>
    /\ UNCHANGED notPipe

\* Step 1, the Gate: edi_portal_is_patient_data_sent (edi_portal_functions.py:
\* 692-772).  A TimeoutError of one of its waits is caught and answered with
\* False (lines 766-767); any other error is raised again.
StepIsPatientDataSent ==
    /\ h_pc = "main" /\ ~skip_steps /\ h_step = 1
    /\ \E ui \in UiOutcomes :
        IF ui = "ok"
          THEN /\ MainReturned(1, IF GateFinds(ctx_subject, p_sent, p_now)
                                    THEN "True" ELSE "False")
               /\ UNCHANGED h_timedOut
        ELSE IF ui = "timeout"
          THEN MainReturned(1, "False") /\ h_timedOut' = TRUE
          ELSE MainRaised(1, "Exception") /\ UNCHANGED h_timedOut
    /\ UNCHANGED <<h_runs, h_item, ctx_subject, ctx_receipt_path, p_sent, p_form, p_now, p_query>>
    /\ UNCHANGED notPipe

\* Step 2: edi_portal_go_to_send_journal (edi_portal_functions.py:775-788).
StepGoToSendJournal == UiOnlyStep(2)

\* Steps 3, 6, 8, 10, 11: edi_portal_click_next_button (edi_portal_functions.py:
\* 183-232); a Next button found under neither selector raises RuntimeError.
StepClickNextButton == \E i \in {3, 6, 8, 10, 11} : UiOnlyStep(i)

\* Step 4: edi_portal_lookup_contractor_id (edi_portal_functions.py:235-291).
IsHasleTorvCase(ecd) == ecd.contractorId \in {"477052", "470678"}

LookupQuery_Original(ecd) == ecd.contractorId

\* lines 246-262, 286-288: the value typed into the search box.
LookupQuery(ecd) ==
    IF IsHasleTorvCase(ecd) THEN "485055"
    ELSE IF ecd.contractorId # "" THEN ecd.contractorId
    ELSE ecd.phoneNumber

\* When the search box is found under neither class name both TimeoutErrors
\* are caught (lines 276-277) and `search_box` is unbound at line 281.
StepLookupContractorId ==
    /\ h_pc = "main" /\ ~skip_steps /\ h_step = 4
    /\ \E ui \in UiOutcomes :
        IF ui = "ok"
          THEN /\ MainReturned(4, "None")
               /\ p_query' = [p_query EXCEPT !.lookup = LookupQuery(h_item)]
               /\ UNCHANGED h_timedOut
        ELSE IF ui = "timeout"
          THEN /\ MainRaised(4, "UnboundLocalError")
               /\ h_timedOut' = TRUE
               /\ UNCHANGED p_query
          ELSE /\ MainRaised(4, "Exception")
               /\ UNCHANGED <<h_timedOut, p_query>>
    /\ UNCHANGED <<h_runs, h_item, ctx_subject, ctx_receipt_path, p_sent, p_form, p_now>>
    /\ UNCHANGED notPipe

\* Step 5: edi_portal_choose_receiver (edi_portal_functions.py:294-326).
\* lines 302-308: the phone number the rows of dtRecipients are compared with.
ReceiverPhone(ecd) ==
    IF IsHasleTorvCase(ecd) THEN "86135240" ELSE ecd.phoneNumber

StepChooseReceiver ==
    /\ h_pc = "main" /\ ~skip_steps /\ h_step = 5
    /\ \E ui \in UiOutcomes :
        IF ui = "ok"
          THEN /\ MainReturned(5, "None")
               /\ p_query' = [p_query EXCEPT !.phone = ReceiverPhone(h_item)]
               /\ UNCHANGED h_timedOut
        ELSE IF ui = "timeout"
          THEN /\ MainRaised(5, "TimeoutError")
               /\ h_timedOut' = TRUE
               /\ UNCHANGED p_query
          ELSE /\ MainRaised(5, "Exception")
               /\ UNCHANGED <<h_timedOut, p_query>>
    /\ UNCHANGED <<h_runs, h_item, ctx_subject, ctx_receipt_path, p_sent, p_form, p_now>>
    /\ UNCHANGED notPipe

\* Step 7: edi_portal_add_content (edi_portal_functions.py:329-447): the
\* subject is composed (a None name raises TypeError) and typed into the form.
StepAddContent ==
    /\ h_pc = "main" /\ ~skip_steps /\ h_step = 7
    /\ IF ContentSubjectName(h_item) = NoName
         THEN MainRaised(7, "TypeError") /\ UNCHANGED <<h_timedOut, p_form>>
         ELSE \E ui \in UiOutcomes :
                IF ui = "ok"
                  THEN /\ MainReturned(7, "None")
                       /\ p_form' = ContentSubject(h_item)
                       /\ UNCHANGED h_timedOut
                ELSE IF ui = "timeout"
                  THEN /\ MainRaised(7, "TimeoutError")
                       /\ h_timedOut' = TRUE
                       /\ UNCHANGED p_form
                  ELSE /\ MainRaised(7, "Exception")
                       /\ UNCHANGED <<h_timedOut, p_form>>
    /\ UNCHANGED <<h_runs, h_item, ctx_subject, ctx_receipt_path, p_sent, p_now, p_query>>
    /\ UNCHANGED notPipe

\* Step 9: edi_portal_upload_files (edi_portal_functions.py:450-494).  The
\* waits for the upload field, the dialog and the page raise TimeoutError; the
\* progress loop ends without an error (the absence of the progress text is
\* what it waits for).
StepUploadFiles == UiOnlyStep(9)

\* Step 12: edi_portal_send_message (edi_portal_functions.py:516-534): the
\* click on submitButton sends the message typed into the form.
StepSendMessage ==
    /\ h_pc = "main" /\ ~skip_steps /\ h_step = 12
    /\ \E ui \in UiOutcomes :
        IF ui = "ok"
          THEN /\ MainReturned(12, "None")
               /\ p_sent' = Append(p_sent, [msg |-> p_form, date |-> p_now,
                                            run |-> h_runs])
               /\ UNCHANGED h_timedOut
        ELSE IF ui = "timeout"
          THEN /\ MainRaised(12, "TimeoutError")
               /\ h_timedOut' = TRUE
               /\ UNCHANGED p_sent
          ELSE /\ MainRaised(12, "Exception")
               /\ UNCHANGED <<h_timedOut, p_sent>>
    /\ UNCHANGED <<h_runs, h_item, ctx_subject, ctx_receipt_path, p_form, p_now, p_query>>
    /\ UNCHANGED notPipe

\* Step 13, first tail step: edi_portal_get_journal_sent_receip
\* (edi_portal_functions.py:537-633): no row equal to the subject raises
\* RuntimeError("Message not sent."); a download that does not arrive within
\* 60 s raises FileNotFoundError.
TailGetReceipt ==
    /\ h_pc = "tail" /\ h_step = 13
    /\ \E ui \in UiOutcomes \cup {"nodownload"} :
        IF ui = "timeout"
          THEN TailRaised(13, "TimeoutError") /\ h_timedOut' = TRUE
        ELSE IF ui = "error"
          THEN TailRaised(13, "Exception") /\ UNCHANGED h_timedOut
        ELSE IF ~ReceiptRowExists(ctx_subject, p_sent)
          THEN TailRaised(13, "RuntimeError") /\ UNCHANGED h_timedOut
        ELSE IF ui = "nodownload"
          THEN TailRaised(13, "FileNotFoundError") /\ h_timedOut' = TRUE
          ELSE TailReturned(13, DownloadedReceipt) /\ UNCHANGED h_timedOut
    /\ UNCHANGED <<h_runs, h_item, ctx_subject, p_sent, p_form, p_now, p_query>>
    /\ UNCHANGED notPipe

\* Step 14, second tail step: rename_file (edi_portal_functions.py:636-659).
TailRenameFile ==
    /\ h_pc = "tail" /\ h_step = 14
    /\ \E fs \in {"ok", "error"} :
        IF fs = "ok"
          THEN TailReturned(14, RenamedReceipt(h_item))
          ELSE TailRaised(14, "OSError")
    /\ UNCHANGED <<h_timedOut, h_runs, h_item, ctx_subject, p_sent, p_form, p_now, p_query>>
    /\ UNCHANGED notPipe

\* The worker is killed while the handler runs (the run is retried later).
HandlerCrash ==
    /\ h_pc \in {"main", "tail"}
    /\ h_pc' = "crashed"
    /\ UNCHANGED <<h_step, skip_steps, h_invoked, h_returned, h_error, h_timedOut,
                   h_result, h_runs, h_item, ctx_subject, ctx_receipt_path, p_sent,
                   p_form, p_now, p_query>>
    /\ UNCHANGED notPipe

\* Days pass between two runs.
PipeTick ==
    /\ h_pc \in {"idle", "done", "failed", "crashed"}
    /\ p_now + TickDays <= MaxDay
    /\ p_now' = p_now + TickDays
    /\ UNCHANGED <<h_pc, h_step, skip_steps, h_invoked, h_returned, h_error,
                   h_timedOut, h_result, h_runs, h_item, ctx_subject,
                   ctx_receipt_path, p_sent, p_form, p_query>>
    /\ UNCHANGED notPipe

PipeNext ==
    \/ HandlerStart
    \/ HandlerSkipStep
    \/ StepIsPatientDataSent
    \/ StepGoToSendJournal
    \/ StepClickNextButton
    \/ StepLookupContractorId
    \/ StepChooseReceiver
    \/ StepAddContent
    \/ StepUploadFiles
    \/ StepSendMessage
    \/ TailGetReceipt
    \/ TailRenameFile
    \/ HandlerCrash
    \/ PipeTick

SpecPipeline == PipeInit /\ [][PipeNext]_vars

(***************************************************************************)
(* The three check-then-create guards:                                     *)
(*   check_and_create_medical_record_document (create_medical_record.py)   *)
(*   _finalize_edi_portal_document            (process_item.py:141-167)    *)
(*   _created_administrative_note             (process_item.py:170-198)    *)
(* Each queries Solteq Tand for an artifact of its kind, of the patient,   *)
(* not older than 30 days, and invokes its creating action if the result   *)
(* is empty.  The guards are invoked with the parameters they declare; an  *)
(* artifact the creating action stores is one the guard's filter selects.  *)
(***************************************************************************)
Kinds == {"medical_record", "receipt", "note"}
Patients == {"p1", "p2"}

\* The work item: both keys hold the cpr of the patient.
GuardItems == {[cpr |-> c, patient_cpr |-> c] : c \in Patients}

\* The document store before the first run: empty, or one artifact created
\* by someone else (for this or another patient) on day 0.
InitialDocs ==
    {EmptyBag} \cup
    {SetToBag({[kind |-> k, cpr |-> c, day |-> 0, by |-> "other"]}) :
        k \in Kinds, c \in Patients}

\* What a guard invocation can meet: the query raises, the result decides and
\* the creating action (if invoked) stores the artifact, stores it and raises
\* afterwards, or raises without storing anything.
GuardOutcomes == {"query_error", "created", "created_then_raised", "create_failed"}

InWindow_SameDay(created, now) == created = now

\* The recency filter `(">=", now - timedelta(days=30))`.
InWindow(created, now) == created >= now - Window

\* get_list_of_documents / get_list_of_journal_notes with the guard's filters.
ExistenceQuery(docs, kind, cpr, now) ==
    {d \in BagToSet(docs) : d.kind = kind /\ d.cpr = cpr /\ InWindow(d.day, now)}

ShouldCreate_Always(result) == TRUE

\* `if not list_of_documents:` / `if not result:`
ShouldCreate(result) == result = {}

\* The body the three guards share: query, then create if nothing was found.
CheckThenCreate(kind, cpr, out) ==
    LET result == ExistenceQuery(g_docs, kind, cpr, g_now)
        stores == out \in {"created", "created_then_raised"}
        new    == [kind |-> kind, cpr |-> g_item.cpr, day |-> g_now, by |-> "robot"]
    IN  IF out = "query_error"
          THEN /\ g_docs' = g_docs
               /\ g_last' = [kind |-> kind, queried |-> FALSE, empty |-> FALSE,
                             invoked |-> FALSE, changed |-> FALSE,
                             error |-> "QueryError"]
          ELSE IF ShouldCreate(result)
            THEN /\ g_docs' = IF stores THEN g_docs (+) SetToBag({new}) ELSE g_docs
                 /\ g_last' = [kind |-> kind, queried |-> TRUE,
                               empty |-> result = {}, invoked |-> TRUE,
                               changed |-> stores,
                               error |-> IF out = "created" THEN "None"
                                         ELSE "CreateError"]
            ELSE /\ g_docs' = g_docs
                 /\ g_last' = [kind |-> kind, queried |-> TRUE,
                               empty |-> result = {}, invoked |-> FALSE,
                               changed |-> FALSE, error |-> "None"]

GuardInit ==
    /\ g_pc = "ready"
    /\ g_item \in GuardItems
    /\ g_docs \in InitialDocs
    /\ g_now = 0
    /\ g_last = NoGuardCall
    /\ RetryIdle
    /\ WaitIdle
    /\ PipeIdle
    /\ ItemIdle
    /\ DisIdle
    /\ UploadIdle
    /\ DownloadIdle
    /\ CprIdle
    /\ ClinicIdle

\* check_and_create_medical_record_document(queue_element_data, solteq_tand_db_object)
CheckAndCreateMedicalRecordDocument ==
    /\ g_pc = "ready"
    /\ \E app \in {"app", "None"} :
         IF app = "None"
           THEN /\ g_last' = [kind |-> "medical_record", queried |-> FALSE,
                              empty |-> FALSE, invoked |-> FALSE, changed |-> FALSE,
                              error |-> "ValueError"]
                /\ g_docs' = g_docs
           ELSE \E out \in GuardOutcomes :
                    CheckThenCreate("medical_record", g_item.patient_cpr, out)
    /\ UNCHANGED <<g_pc, g_item, g_now>>
    /\ UNCHANGED notGuard

\* _finalize_edi_portal_document(solteq_tand_db_object, receipt_pdf, solteq_app)
FinalizeEdiPortalDocument ==
    /\ g_pc = "ready"
    /\ \E out \in GuardOutcomes : CheckThenCreate("receipt", g_item.cpr, out)
    /\ UNCHANGED <<g_pc, g_item, g_now>>
    /\ UNCHANGED notGuard

\* _created_administrative_note(solteq_app, solteq_tand_db_object)
CreatedAdministrativeNote ==
    /\ g_pc = "ready"
    /\ \E out \in GuardOutcomes : CheckThenCreate("note", g_item.cpr, out)
    /\ UNCHANGED <<g_pc, g_item, g_now>>
    /\ UNCHANGED notGuard

\* Days pass between two invocations.
GuardTick ==
    /\ g_pc = "ready"
    /\ g_now + TickDays <= MaxDay
    /\ g_now' = g_now + TickDays
    /\ UNCHANGED <<g_pc, g_item, g_docs, g_last>>
    /\ UNCHANGED notGuard

GuardNext ==
    \/ CheckAndCreateMedicalRecordDocument
    \/ FinalizeEdiPortalDocument
    \/ CreatedAdministrativeNote
    \/ GuardTick

SpecGuards == GuardInit /\ [][GuardNext]_vars

(***************************************************************************)
(* process_item (process_item.py:201-282).                                 *)
(* One action per statement of the try body, one per except clause, one    *)
(* for the finally clause.  _process_images calls get_images_from_romexis  *)
(* without its required argument queue_element_data, so the call raises    *)
(* TypeError and the statements after it (process_item.py:233-257) are     *)
(* never reached.                                                          *)
(***************************************************************************)
ItemIds == {1, 2}
ProcItems == [id : ItemIds, has_ydernummer : BOOLEAN, has_phone : BOOLEAN]

HasRequiredKeys_Either(item) == item.has_ydernummer \/ item.has_phone

\* _validate_input_data passes when neither key is missing from item_data.
HasRequiredKeys(item) == item.has_ydernummer /\ item.has_phone

\* What a call of update_dashboard_step_run can meet: it goes through, the
\* lookup of the step run raises, or the HTTP update raises.
ReportOutcomes == {"ok", "lookup_error", "http_error"}

\* What _open_and_initialize_patient can do, by the call that ends it:
\* open_patient raises; check_extern_clinic_data finds no extern dentist
\* (`result[0]` raises IndexError) or one without phone number (BusinessError
\* with the JSON text of config.py:28); check_contractor_data raises a
\* BusinessError whose text comes from the exception table (JSON) or is the
\* default "message_text" (not JSON), a ProcessError, or any other error of
\* the portal automation; or everything returns.
InitOutcomes ==
    {[at |-> "none", cls |-> "None", json |-> FALSE],
     [at |-> "open_patient", cls |-> "RuntimeError", json |-> FALSE],
     [at |-> "check_extern_clinic_data", cls |-> "IndexError", json |-> FALSE],
     [at |-> "check_extern_clinic_data", cls |-> "BusinessError", json |-> TRUE],
     [at |-> "check_contractor_data", cls |-> "BusinessError", json |-> TRUE],
     [at |-> "check_contractor_data", cls |-> "BusinessError", json |-> FALSE],
     [at |-> "check_contractor_data", cls |-> "ProcessError", json |-> FALSE],
     [at |-> "check_contractor_data", cls |-> "TimeoutError", json |-> FALSE]}

\* The calls _open_and_initialize_patient makes up to the one that ends it.
\* check_contractor_data opens the EDI portal and closes it on return, on
\* BusinessError and on ProcessError (initalize.py:125-171).
InitCalls(out) ==
    IF out.at = "open_patient" THEN <<"open_patient">>
    ELSE IF out.at = "check_extern_clinic_data"
      THEN <<"open_patient", "get_primary_clinic_data", "check_extern_clinic_data">>
    ELSE <<"open_patient", "get_primary_clinic_data", "check_extern_clinic_data",
           "get_administrative_note", "check_contractor_data", "open_edi_portal">>
         \o (IF out.cls \in {"None", "BusinessError", "ProcessError"}
               THEN <<"close_edi_portal">> ELSE <<>>)

Exc(cls) == [cls |-> cls, json |-> FALSE]

\* build_step_run_update: the failure content and the rerun configuration.
\* json.loads(str(failure)) raises for a BusinessError whose text is not JSON.
BuildStepRunUpdate(status, failure, rerun) ==
    [status |-> status,
     failure |-> IF failure = NoExc THEN "None"
                 ELSE IF failure.cls = "BusinessError"
                        THEN IF failure.json THEN "structured" ELSE "JSONDecodeError"
                        ELSE "generic",
     rerun_config |-> IF rerun THEN <<ctx_item_id>> ELSE <<>>]

\* `{k: v for k, v in update_data.items() if v is not None and v != {}}`
DropEmpty(update) ==
    [update EXCEPT !.failure = IF @ = "None" THEN "absent" ELSE @]

\* The exception update_dashboard_step_run raises ("None": it returns).
ReportRaises(failure, out) ==
    IF out = "lookup_error" THEN "LookupError"
    ELSE IF failure.cls = "BusinessError" /\ ~failure.json THEN "JSONDecodeError"
    ELSE IF out = "http_error" THEN "HTTPError"
    ELSE "None"

\* update_dashboard_step_run(step_name, status, failure, rerun)
UpdateDashboardStepRun(status, failure, rerun, out) ==
    /\ pi_attempt' = [status |-> status, failure |-> failure.cls, rerun |-> rerun]
    /\ pi_payload' =
         IF ReportRaises(failure, out) \in {"LookupError", "JSONDecodeError"}
           THEN NoPayload
           ELSE DropEmpty(BuildStepRunUpdate(status, failure, rerun))
    /\ pi_key' = ctx_item_id
    /\ pi_delivered' = IF ReportRaises(failure, out) = "None"
                          THEN Append(pi_delivered, status)
                          ELSE pi_delivered

RerunFor_Always(clause) == TRUE

\* The argument rerun of the report in the two except clauses.
RerunFor(clause) == clause = "BusinessError"

AfterHandler_NoFinally(raised) == IF raised = "None" THEN "finally" ELSE "ended"

\* Where control goes when an except clause is left: the finally clause.
AfterHandler(raised) == "finally"

ExceptClause_OnlyException(exc) == "except_exception"

\* The except clause that catches an exception raised in the try body.
ExceptClause(exc) ==
    IF exc.cls = "BusinessError" THEN "except_business" ELSE "except_exception"

\* A statement of the try body raised exc.
TryRaises(exc) ==
    /\ pi_error' = exc
    /\ pi_pc' = ExceptClause(exc)

Init ==
    /\ pi_pc = "start"
    /\ pi_item = NoItem
    /\ pi_runs = 0
    /\ pi_error = NoExc
    /\ pi_attempt = NoAttempt
    /\ pi_payload = NoPayload
    /\ pi_closes = 0
    /\ pi_last = "none"
    /\ pi_trace = <<>>
    /\ pi_extfail = FALSE
    /\ pi_raised = "None"
    /\ pi_delivered = <<>>
    /\ pi_key = 0
    /\ ctx_item_id = 0
    /\ RetryIdle
    /\ WaitIdle
    /\ PipeIdle
    /\ GuardIdle
    /\ DisIdle
    /\ UploadIdle
    /\ DownloadIdle
    /\ CprIdle
    /\ ClinicIdle

\* process_item is invoked for a work item; _validate_input_data.
ValidateInputData ==
    /\ pi_pc \in {"start", "ended"}
    /\ pi_runs < MaxRuns
    /\ \E item \in ProcItems :
         /\ pi_item' = item
         /\ IF HasRequiredKeys(item)
              THEN pi_pc' = "setup" /\ pi_error' = NoExc
              ELSE TryRaises(Exc("ValueError"))
    /\ pi_runs' = pi_runs + 1
    /\ pi_attempt' = NoAttempt
    /\ pi_payload' = NoPayload
    /\ pi_closes' = 0
    /\ pi_last' = "_validate_input_data"
    /\ pi_trace' = <<"_validate_input_data">>
    /\ pi_extfail' = FALSE
    /\ pi_raised' = "None"
    /\ pi_delivered' = <<>>
    /\ pi_key' = 0
    /\ UNCHANGED ctx_item_id
    /\ UNCHANGED notItem

\* _setup_context
SetupContext ==
    /\ pi_pc = "setup"
    /\ ctx_item_id' = pi_item.id
    /\ pi_pc' = "report_running"
    /\ pi_last' = "_setup_context"
    /\ pi_trace' = Append(pi_trace, "_setup_context")
    /\ UNCHANGED pi_extfail
    /\ UNCHANGED <<pi_item, pi_runs, pi_error, pi_attempt, pi_payload, pi_closes,
                   pi_raised, pi_delivered, pi_key>>
    /\ UNCHANGED notItem

\* update_dashboard_step_run(status="running")
ReportRunning ==
    /\ pi_pc = "report_running"
    /\ \E out \in ReportOutcomes :
         /\ UpdateDashboardStepRun("running", NoExc, FALSE, out)
         /\ pi_extfail' = (pi_extfail \/ out # "ok")
         /\ IF ReportRaises(NoExc, out) = "None"
              THEN pi_pc' = "get_app" /\ pi_error' = pi_error
              ELSE TryRaises(Exc(ReportRaises(NoExc, out)))
    /\ pi_last' = "update_dashboard_step_run"
    /\ pi_trace' = Append(pi_trace, "update_dashboard_step_run")
    /\ UNCHANGED <<pi_item, pi_runs, pi_closes, pi_raised, ctx_item_id>>
    /\ UNCHANGED notItem

\* solteq_app = get_app(); None raises ValueError
GetApp ==
    /\ pi_pc = "get_app"
    /\ \E app \in {"app", "None"} :
         /\ IF app = "None"
              THEN TryRaises(Exc("ValueError"))
              ELSE pi_pc' = "prepare" /\ pi_error' = pi_error
         /\ pi_extfail' = (pi_extfail \/ app = "None")
    /\ pi_last' = "get_app"
    /\ pi_trace' = Append(pi_trace, "get_app")
    /\ UNCHANGED <<pi_item, pi_runs, pi_attempt, pi_payload, pi_closes, pi_raised,
                   pi_delivered, pi_key, ctx_item_id>>
    /\ UNCHANGED notItem

\* _prepare_environment
PrepareEnvironment ==
    /\ pi_pc = "prepare"
    /\ \E out \in {"ok", "error"} :
         /\ IF out = "error"
              THEN TryRaises(Exc("OSError"))
              ELSE pi_pc' = "init" /\ pi_error' = pi_error
         /\ pi_extfail' = (pi_extfail \/ out = "error")
    /\ pi_last' = "_prepare_environment"
    /\ pi_trace' = Append(pi_trace, "_prepare_environment")
    /\ UNCHANGED <<pi_item, pi_runs, pi_attempt, pi_payload, pi_closes, pi_raised,
                   pi_delivered, pi_key, ctx_item_id>>
    /\ UNCHANGED notItem

\* _open_and_initialize_patient
OpenAndInitializePatient ==
    /\ pi_pc = "init"
    /\ \E out \in InitOutcomes :
         /\ IF out.cls = "None"
              THEN pi_pc' = "images" /\ pi_error' = pi_error
              ELSE TryRaises([cls |-> out.cls, json |-> out.json])
         /\ pi_trace' = Append(pi_trace, "_open_and_initialize_patient") \o InitCalls(out)
         /\ pi_extfail' = (pi_extfail \/ out.cls # "None")
    /\ pi_last' = "_open_and_initialize_patient"
    /\ UNCHANGED <<pi_item, pi_runs, pi_attempt, pi_payload, pi_closes, pi_raised,
                   pi_delivered, pi_key, ctx_item_id>>
    /\ UNCHANGED notItem

\* _process_images: get_images_from_romexis() misses its argument
ProcessImages ==
    /\ pi_pc = "images"
    /\ TryRaises(Exc("TypeError"))
    /\ pi_last' = "_process_images"
    /\ pi_trace' = Append(pi_trace, "_process_images")
    /\ UNCHANGED pi_extfail
    /\ UNCHANGED <<pi_item, pi_runs, pi_attempt, pi_payload, pi_closes, pi_raised,
                   pi_delivered, pi_key, ctx_item_id>>
    /\ UNCHANGED notItem

\* except BusinessError as be: report failed with rerun, raise be
ExceptBusinessError ==
    /\ pi_pc = "except_business"
    /\ \E out \in ReportOutcomes :
         /\ UpdateDashboardStepRun("failed", pi_error, RerunFor("BusinessError"), out)
         /\ pi_extfail' = (pi_extfail \/ out # "ok")
         /\ pi_raised' = IF ReportRaises(pi_error, out) = "None"
                           THEN "BusinessError"
                           ELSE ReportRaises(pi_error, out)
    /\ pi_pc' = AfterHandler(pi_raised')
    /\ pi_last' = "update_dashboard_step_run"
    /\ pi_trace' = Append(pi_trace, "update_dashboard_step_run")
    /\ UNCHANGED <<pi_item, pi_runs, pi_error, pi_closes, ctx_item_id>>
    /\ UNCHANGED notItem

\* except Exception as e: report failed without rerun, raise ProcessError
ExceptException ==
    /\ pi_pc = "except_exception"
    /\ \E out \in ReportOutcomes :
         /\ UpdateDashboardStepRun("failed", pi_error, RerunFor("Exception"), out)
         /\ pi_extfail' = (pi_extfail \/ out # "ok")
         /\ pi_raised' = IF ReportRaises(pi_error, out) = "None"
                           THEN "ProcessError"
                           ELSE ReportRaises(pi_error, out)
    /\ pi_pc' = AfterHandler(pi_raised')
    /\ pi_last' = "update_dashboard_step_run"
    /\ pi_trace' = Append(pi_trace, "update_dashboard_step_run")
    /\ UNCHANGED <<pi_item, pi_runs, pi_error, pi_closes, ctx_item_id>>
    /\ UNCHANGED notItem

\* finally: close()
Finally ==
    /\ pi_pc = "finally"
    /\ pi_closes' = pi_closes + 1
    /\ pi_last' = "close"
    /\ pi_trace' = Append(pi_trace, "close")
    /\ \E out \in {"ok", "error"} :
         /\ pi_raised' = IF out = "error" THEN "CloseError" ELSE pi_raised
         /\ pi_extfail' = (pi_extfail \/ out = "error")
    /\ pi_pc' = "ended"
    /\ UNCHANGED <<pi_item, pi_runs, pi_error, pi_attempt, pi_payload, pi_delivered,
                   pi_key, ctx_item_id>>
    /\ UNCHANGED notItem

Next ==
    \/ ValidateInputData
    \/ SetupContext
    \/ ReportRunning
    \/ GetApp
    \/ PrepareEnvironment
    \/ OpenAndInitializePatient
    \/ ProcessImages
    \/ ExceptBusinessError
    \/ ExceptException
    \/ Finally

Spec == Init /\ [][Next]_vars

(***************************************************************************)
(* wait_for_control_to_disappear (edi_portal_functions.py:60-89).          *)
(* The loop of wait_for_control with the test inverted and a fixed sleep   *)
(* of 0.5 s, which is the unit of time here.                               *)
(***************************************************************************)
DisFinished == d_pc \in {"returned", "timeout"}

PollSeesGone_UnlessPresent(target) == target # "present"

\* lines 80-84: True is returned when Exists(0, 0) is false; a query that
\* raises is logged and the loop goes on.
PollSeesGone(target) == target = "absent"

AfterPoll_ErrorAborts(target) ==
    IF PollSeesGone(target) THEN "returned"
    ELSE IF target = "broken" THEN "aborted" ELSE "sleep"

\* lines 82-86: `return True`, or on to time.sleep(0.5); the except clause
\* of line 83 logs the error of a query and falls through to the sleep.
AfterPoll(target) == IF PollSeesGone(target) THEN "returned" ELSE "sleep"

DisInit ==
    /\ d_pc = "test"
    /\ d_timeout \in 0..MaxTimeout
    /\ d_clock = 0
    /\ d_end_time = d_timeout      \* line 78: end_time = time.time() + timeout
    /\ d_wake = 0
    /\ d_q = 0
    /\ d_polls = 0
    /\ d_target \in TargetStates
    /\ d_seenAbsent = FALSE
    /\ d_errors = 0
    /\ d_result = "none"
    /\ RetryIdle
    /\ WaitIdle
    /\ PipeIdle
    /\ GuardIdle
    /\ ItemIdle
    /\ UploadIdle
    /\ DownloadIdle
    /\ CprIdle
    /\ ClinicIdle

\* line 79 true, lines 80-81: the existence query starts.
DisPollStart ==
    /\ d_pc = "test"
    /\ LoopContinues(d_clock, d_end_time)
    /\ \E q \in 0..MaxQueryTime :
        /\ d_q' = q
        /\ d_wake' = d_clock + q
    /\ d_pc' = "query"
    /\ UNCHANGED <<d_timeout, d_clock, d_end_time, d_polls, d_target, d_seenAbsent,
                   d_errors, d_result>>
    /\ UNCHANGED notDis

\* lines 81-86: the query ends; True is returned, or the loop sleeps.
DisPollEnd ==
    /\ d_pc = "query"
    /\ d_clock = d_wake
    /\ d_polls' = d_polls + 1
    /\ d_seenAbsent' = (d_seenAbsent \/ d_target = "absent")
    /\ d_errors' = d_errors + (IF d_target = "broken" THEN 1 ELSE 0)
    /\ d_pc' = AfterPoll(d_target)
    /\ IF PollSeesGone(d_target)
         THEN /\ d_result' = "True"
              /\ UNCHANGED d_wake
         ELSE /\ d_wake' = d_clock + 1
              /\ UNCHANGED d_result
    /\ UNCHANGED <<d_timeout, d_clock, d_end_time, d_q, d_target>>
    /\ UNCHANGED notDis

\* line 86: time.sleep(0.5) is over; back to the while test.
DisWake ==
    /\ d_pc = "sleep"
    /\ d_clock = d_wake
    /\ d_pc' = "test"
    /\ UNCHANGED <<d_timeout, d_clock, d_end_time, d_wake, d_q, d_polls, d_target,
                   d_seenAbsent, d_errors, d_result>>
    /\ UNCHANGED notDis

\* line 79 false, lines 88-89: raise TimeoutError.
DisTimeout ==
    /\ d_pc = "test"
    /\ ~LoopContinues(d_clock, d_end_time)
    /\ d_pc' = "timeout"
    /\ d_result' = "TimeoutError"
    /\ UNCHANGED <<d_timeout, d_clock, d_end_time, d_wake, d_q, d_polls, d_target,
                   d_seenAbsent, d_errors>>
    /\ UNCHANGED notDis

\* Time passes while the function is inside a query or a sleep, and the UI
\* may change meanwhile.
DisTick ==
    /\ d_pc \in {"query", "sleep"}
    /\ d_clock < d_wake
    /\ d_clock' = d_clock + 1
    /\ d_target' \in TargetStates
    /\ UNCHANGED <<d_pc, d_timeout, d_end_time, d_wake, d_q, d_polls, d_seenAbsent,
                   d_errors, d_result>>
    /\ UNCHANGED notDis

DisNext == DisPollStart \/ DisPollEnd \/ DisWake \/ DisTimeout \/ DisTick

SpecDisappear == DisInit /\ [][DisNext]_vars

(***************************************************************************)
(* The upload-progress loop of edi_portal_upload_files                     *)
(* (edi_portal_functions.py:476-494).  The loop reads no clock: it counts  *)
(* its budget down by 5 for every round in which the progress text was     *)
(* found.  The inner wait_for_control(timeout=5) is the unit modelled      *)
(* above; here it ends in one of the two ways it can end.                  *)
(***************************************************************************)
UploadTimeout == 180
UploadPause == 5

UploadFinished == u_pc = "done"

\* wait_for_control returns the control or raises TimeoutError (lines 55-57).
InnerWaitOutcomes == {"found", "TimeoutError"}

BudgetAfterPause_Kept(budget) == budget

\* line 490: timeout -= 5
BudgetAfterPause(budget) == budget - UploadPause

\* lines 476-477
UploadInit ==
    /\ u_pc = "test"
    /\ u_timeout = UploadTimeout
    /\ u_element_gone = FALSE
    /\ RetryIdle
    /\ WaitIdle
    /\ PipeIdle
    /\ GuardIdle
    /\ ItemIdle
    /\ DisIdle
    /\ DownloadIdle
    /\ CprIdle
    /\ ClinicIdle

\* line 478 true, lines 479-487: wait_for_control is called.
UploadWaitStart ==
    /\ u_pc = "test"
    /\ ~u_element_gone /\ u_timeout > 0
    /\ u_pc' = "wait"
    /\ UNCHANGED <<u_timeout, u_element_gone>>
    /\ UNCHANGED notUp

\* lines 480-494: wait_for_control has ended.  The control it returns is
\* truthy, so the loop goes on to the sleep; TimeoutError sets element_gone.
UploadWaitEnd ==
    /\ u_pc = "wait"
    /\ \E out \in InnerWaitOutcomes :
        IF out = "found"
          THEN /\ u_pc' = "sleep"
               /\ UNCHANGED u_element_gone
          ELSE /\ u_pc' = "test"
               /\ u_element_gone' = TRUE
    /\ UNCHANGED u_timeout
    /\ UNCHANGED notUp

\* lines 489-490: time.sleep(5) is over; the budget is counted down.
UploadSlept ==
    /\ u_pc = "sleep"
    /\ u_timeout' = BudgetAfterPause(u_timeout)
    /\ u_pc' = "test"
    /\ UNCHANGED u_element_gone
    /\ UNCHANGED notUp

\* line 478 false: the loop is left.
UploadLeave ==
    /\ u_pc = "test"
    /\ ~(~u_element_gone /\ u_timeout > 0)
    /\ u_pc' = "done"
    /\ UNCHANGED <<u_timeout, u_element_gone>>
    /\ UNCHANGED notUp

UploadNext == UploadWaitStart \/ UploadWaitEnd \/ UploadSlept \/ UploadLeave

(***************************************************************************)
(* The receipt-download loop of edi_portal_get_journal_sent_receip         *)
(* (edi_portal_functions.py:618-630).  The unit of time is one second.     *)
(***************************************************************************)
DownloadTimeout == 60

DownloadFinished == dl_pc \in {"returned", "error"}

\* line 622: while time.time() - start_time < timeout
DownloadContinues(now, start) == now - start < DownloadTimeout

\* lines 619-620
DownloadInit ==
    /\ dl_pc = "test"
    /\ dl_clock = 0
    /\ dl_start_time = 0
    /\ dl_wake = 0
    /\ dl_file \in BOOLEAN
    /\ dl_result = "none"
    /\ RetryIdle
    /\ WaitIdle
    /\ PipeIdle
    /\ GuardIdle
    /\ ItemIdle
    /\ DisIdle
    /\ UploadIdle
    /\ CprIdle
    /\ ClinicIdle

\* line 622 true, line 623: the Downloads folder is listed.
DownloadGlobStart ==
    /\ dl_pc = "test"
    /\ DownloadContinues(dl_clock, dl_start_time)
    /\ \E q \in 0..MaxQueryTime : dl_wake' = dl_clock + q
    /\ dl_pc' = "glob"
    /\ UNCHANGED <<dl_clock, dl_start_time, dl_file, dl_result>>
    /\ UNCHANGED notDl

\* lines 623-626: the listing ends; the receipt is returned, or the loop sleeps.
DownloadGlobEnd ==
    /\ dl_pc = "glob"
    /\ dl_clock = dl_wake
    /\ IF dl_file
         THEN /\ dl_pc' = "returned"
              /\ dl_result' = "receipt"
              /\ UNCHANGED dl_wake
         ELSE /\ dl_pc' = "sleep"
              /\ dl_wake' = dl_clock + 1
              /\ UNCHANGED dl_result
    /\ UNCHANGED <<dl_clock, dl_start_time, dl_file>>
    /\ UNCHANGED notDl

\* line 626: time.sleep(1) is over; back to the while test.
DownloadWake ==
    /\ dl_pc = "sleep"
    /\ dl_clock = dl_wake
    /\ dl_pc' = "test"
    /\ UNCHANGED <<dl_clock, dl_start_time, dl_wake, dl_file, dl_result>>
    /\ UNCHANGED notDl

\* line 622 false, lines 628-633: FileNotFoundError is raised, logged and
\* raised again.
DownloadGiveUp ==
    /\ dl_pc = "test"
    /\ ~DownloadContinues(dl_clock, dl_start_time)
    /\ dl_pc' = "error"
    /\ dl_result' = "FileNotFoundError"
    /\ UNCHANGED <<dl_clock, dl_start_time, dl_wake, dl_file>>
    /\ UNCHANGED notDl

\* Time passes while the loop is inside the listing or the sleep, and the
\* folder may change meanwhile.
DownloadTick ==
    /\ dl_pc \in {"glob", "sleep"}
    /\ dl_clock < dl_wake
    /\ dl_clock' = dl_clock + 1
    /\ dl_file' \in BOOLEAN
    /\ UNCHANGED <<dl_pc, dl_start_time, dl_wake, dl_result>>
    /\ UNCHANGED notDl

DownloadNext ==
    \/ DownloadGlobStart
    \/ DownloadGlobEnd
    \/ DownloadWake
    \/ DownloadGiveUp
    \/ DownloadTick

(***************************************************************************)
(* The four waiting loops together.  One behaviour runs one of them.  Weak *)
(* fairness of the next-step relation says that time advances while a loop *)
(* sleeps or waits for a query, that a query returns, and that the code    *)
(* takes its next step.                                                    *)
(***************************************************************************)
WaitsInit == WaitInit \/ DisInit \/ UploadInit \/ DownloadInit

WaitsNext == WaitNext \/ DisNext \/ UploadNext \/ DownloadNext

SpecWaits == WaitsInit /\ [][WaitsNext]_vars /\ WF_vars(WaitsNext)

(***************************************************************************)
(* cpr_to_birthdate (helper_functions.py:25-60).                           *)
(* Text is a sequence of characters.  The argument is written from a day,  *)
(* a month, a two-digit year and a personal number, and may be changed     *)
(* afterwards so that it is no longer ten decimal digits.                  *)
(***************************************************************************)
CPR_LENGTH == 10
SSSS_0_1999_MAX == 1999
SSSS_2000_MIN == 2000
SSSS_4999_MAX == 4999
SSSS_5000_MIN == 5000
SSSS_8999_MAX == 8999
SSSS_9000_MIN == 9000
SSSS_9999_MAX == 9999
YY_CENTURY_SPLIT == 37

DecimalChars == <<"0", "1", "2", "3", "4", "5", "6", "7", "8", "9">>

IsDecimalChar(c) == \E v \in 1..10 : DecimalChars[v] = c

\* The numbers the arguments are written from, and the changes made to the
\* text afterwards.
Days == {0, 1, 28, 29, 30, 31, 32}
Months == {0, 1, 2, 4, 12, 13}
TwoDigitYears == {0, 4, 30, 36, 37, 99}
PersonalNumbers == {0, 1999, 2000, 4999, 5000, 8999, 9000, 9999}
Damages == {"none", "short", "long", "letters", "superscript", "space", "empty"}

\* n written with two and with four decimal digits.
Digits2(n) == <<DecimalChars[(n \div 10) + 1], DecimalChars[(n % 10) + 1]>>
Digits4(n) == Digits2(n \div 100) \o Digits2(n % 100)

Damaged(text, damage) ==
    CASE damage = "none" -> text
      [] damage = "short" -> SubSeq(text, 1, Len(text) - 1)
      [] damage = "long" -> text \o <<"0">>
      [] damage = "letters" -> SubSeq(text, 1, Len(text) - 2) \o <<"A", "A">>
      [] damage = "superscript" -> <<"2_superscript">> \o SubSeq(text, 2, Len(text))
      [] damage = "space" -> <<" ">> \o SubSeq(text, 2, Len(text))
      [] damage = "empty" -> <<>>

\* str.isdigit(): every character is a digit and there is at least one.  The
\* superscript two is a digit for isdigit, though int() does not accept it.
IsDigitChar(c) == IsDecimalChar(c) \/ c = "2_superscript"
IsDigit(text) == Len(text) > 0 /\ \A i \in 1..Len(text) : IsDigitChar(text[i])

\* int(text): the value of a text of decimal digits, -1 for the ValueError
\* that int raises for any other text.
DigitValue(c) == (CHOOSE v \in 1..10 : DecimalChars[v] = c) - 1

RECURSIVE DecimalValue(_)
DecimalValue(text) ==
    IF text = <<>> THEN 0
    ELSE 10 * DecimalValue(SubSeq(text, 1, Len(text) - 1))
            + DigitValue(text[Len(text)])

IntOf(text) ==
    IF text # <<>> /\ \A i \in 1..Len(text) : IsDecimalChar(text[i])
      THEN DecimalValue(text)
      ELSE -1

\* datetime(year, month, day): ValueError unless the day exists.
IsLeapYear(y) == y % 4 = 0 /\ (y % 100 # 0 \/ y % 400 = 0)

DaysInMonth(y, m) ==
    IF m = 2 THEN (IF IsLeapYear(y) THEN 29 ELSE 28)
    ELSE IF m \in {4, 6, 9, 11} THEN 30
    ELSE 31

DatetimeAccepts(y, m, d) == m \in 1..12 /\ d \in 1..DaysInMonth(y, m)

FullYear_SplitExclusive(ssss, yy) ==
    IF 0 <= ssss /\ ssss <= SSSS_0_1999_MAX
      THEN (IF yy > YY_CENTURY_SPLIT THEN 1900 + yy ELSE 2000 + yy)
    ELSE IF SSSS_2000_MIN <= ssss /\ ssss <= SSSS_4999_MAX
      THEN 1900 + yy
    ELSE IF SSSS_5000_MIN <= ssss /\ ssss <= SSSS_8999_MAX
      THEN (IF yy > YY_CENTURY_SPLIT THEN 1900 + yy ELSE 2000 + yy)
    ELSE IF SSSS_9000_MIN <= ssss /\ ssss <= SSSS_9999_MAX
      THEN (IF yy > YY_CENTURY_SPLIT THEN 1800 + yy ELSE 2000 + yy)
    ELSE -1

\* lines 46-57: the full year; -1 for the ValueError of the last branch.
FullYear(ssss, yy) ==
    IF 0 <= ssss /\ ssss <= SSSS_0_1999_MAX
      THEN (IF yy >= YY_CENTURY_SPLIT THEN 1900 + yy ELSE 2000 + yy)
    ELSE IF SSSS_2000_MIN <= ssss /\ ssss <= SSSS_4999_MAX
      THEN 1900 + yy
    ELSE IF SSSS_5000_MIN <= ssss /\ ssss <= SSSS_8999_MAX
      THEN (IF yy >= YY_CENTURY_SPLIT THEN 1900 + yy ELSE 2000 + yy)
    ELSE IF SSSS_9000_MIN <= ssss /\ ssss <= SSSS_9999_MAX
      THEN (IF yy >= YY_CENTURY_SPLIT THEN 1800 + yy ELSE 2000 + yy)
    ELSE -1

ValueError == [kind |-> "ValueError", year |-> 0, month |-> 0, day |-> 0]

cpr_to_birthdate(text) ==
    IF Len(text) # CPR_LENGTH \/ ~IsDigit(text)
      THEN ValueError                                    \* lines 37-38
      ELSE LET day   == IntOf(SubSeq(text, 1, 2))        \* lines 40-43
               month == IntOf(SubSeq(text, 3, 4))
               yy    == IntOf(SubSeq(text, 5, 6))
               ssss  == IntOf(SubSeq(text, 7, 10))
               year  == FullYear(ssss, yy)
           IN  IF day = -1 \/ month = -1 \/ yy = -1 \/ ssss = -1
                 THEN ValueError                         \* int() raises
               ELSE IF year = -1
                 THEN ValueError                         \* lines 55-57
               ELSE IF ~DatetimeAccepts(year, month, day)
                 THEN ValueError                         \* line 60
               ELSE [kind |-> "date", year |-> year, month |-> month,
                     day |-> day]

CprInit ==
    /\ c_pc = "call"
    /\ c_dd \in Days
    /\ c_mm \in Months
    /\ c_yy \in TwoDigitYears
    /\ c_ssss \in PersonalNumbers
    /\ c_damage \in Damages
    /\ ssn = Damaged(Digits2(c_dd) \o Digits2(c_mm) \o Digits2(c_yy)
                        \o Digits4(c_ssss), c_damage)
    /\ c_result = NoBirthdate
    /\ RetryIdle
    /\ WaitIdle
    /\ PipeIdle
    /\ GuardIdle
    /\ ItemIdle
    /\ DisIdle
    /\ UploadIdle
    /\ DownloadIdle
    /\ ClinicIdle

CprCall ==
    /\ c_pc = "call"
    /\ c_result' = cpr_to_birthdate(ssn)
    /\ c_pc' = "done"
    /\ UNCHANGED <<c_dd, c_mm, c_yy, c_ssss, c_damage, ssn>>
    /\ UNCHANGED notCpr

CprNext == CprCall

SpecCpr == CprInit /\ [][CprNext]_vars

(***************************************************************************)
(* The extern clinic through the EDI portal: check_extern_clinic_data and  *)
(* check_contractor_data (initalize.py:59-171), then _process_edi_portal   *)
(* (process_item.py:116-138) with the two steps of edi_portal_handler that *)
(* read extern_clinic_data.  A missing or empty field is "None".           *)
(***************************************************************************)
ContractorIds == {"477052", "470678", "485055", "123456", "None"}
PhoneNumbers == {"86135240", "12345678", "None"}
ExternClinicRecords == [contractorId : ContractorIds, phoneNumber : PhoneNumbers]

\* The phone numbers the rows of the portal's recipient table can show.
PortalPhones == {"86135240", "12345678"}

\* What a portal automation call can do besides returning.
AutomationOutcomes == {"ok", "TimeoutError", "ProcessError"}

\* What close_edi_portal can do.
CloseOutcomes == {"ok", "ProcessError", "Exception"}

\* edi_portal_functions.py:110-113, 247-250, 301-304: the Hasle Torv clinic
IsSpecialCase(data) == data.contractorId \in {"477052", "470678"}

\* edi_portal_functions.py:114-121, 251-258
ContractorIdFor(data) ==
    IF IsSpecialCase(data) THEN "485055" ELSE data.contractorId

\* edi_portal_functions.py:115-127, 252-263
PhoneNumberFor(data) ==
    IF IsSpecialCase(data) THEN "86135240" ELSE data.phoneNumber

\* edi_portal_functions.py:301-308
ReceiverPhoneFor(data) ==
    IF IsSpecialCase(data) THEN "86135240" ELSE data.phoneNumber

\* edi_portal_functions.py:151-153, 284-286
SearchValue(data) ==
    IF ContractorIdFor(data) # "None" THEN ContractorIdFor(data)
    ELSE PhoneNumberFor(data)

ClinicInit ==
    /\ k_pc = "extern"
    /\ k_data \in ExternClinicRecords
    /\ k_table = {}
    /\ k_search = <<>>
    /\ k_phones = <<>>
    /\ k_opens = 0
    /\ k_closes = 0
    /\ k_result = "none"
    /\ RetryIdle
    /\ WaitIdle
    /\ PipeIdle
    /\ GuardIdle
    /\ ItemIdle
    /\ DisIdle
    /\ UploadIdle
    /\ DownloadIdle
    /\ CprIdle

\* check_extern_clinic_data (initalize.py:59-90), for a patient with an
\* extern dentist record.
CheckExternClinicData ==
    /\ k_pc = "extern"
    /\ IF k_data.phoneNumber = "None"
         THEN k_pc' = "aborted" /\ k_result' = "phone_not_set"
         ELSE k_pc' = "contractor" /\ k_result' = "returned"
    /\ UNCHANGED <<k_data, k_table, k_search, k_phones, k_opens, k_closes>>
    /\ UNCHANGED notClinic

\* check_contractor_data (initalize.py:125-171) with
\* edi_portal_check_contractor_id (edi_portal_functions.py:92-180).
CheckContractorData ==
    /\ k_pc = "contractor"
    /\ \E app \in {"app", "None"}, chk \in AutomationOutcomes,
          tbl \in SUBSET PortalPhones, cl1 \in CloseOutcomes, cl2 \in CloseOutcomes :
         LET searched == app = "app"
             match == PhoneNumberFor(k_data) \in tbl
             \* the exception raised in the try body before any close
             body == IF app = "None" THEN "ValueError"
                     ELSE IF chk # "ok" THEN chk
                     ELSE IF tbl = {} THEN "1G"
                     ELSE IF ~match THEN "1H"
                     ELSE "None"
             bodyClosed == body = "None"              \* line 163
             \* the except clause entered, if any
             caught == IF body \in {"1G", "1H"} THEN "BusinessError"
                       ELSE IF body = "ProcessError" THEN "ProcessError"
                       ELSE IF bodyClosed /\ cl1 = "ProcessError" THEN "ProcessError"
                       ELSE "None"
         IN  /\ k_opens' = IF app = "app" THEN 1 ELSE 0
             /\ k_closes' = (IF bodyClosed THEN 1 ELSE 0)
                            + (IF caught # "None" THEN 1 ELSE 0)
             /\ k_table' = IF searched /\ chk = "ok" THEN tbl ELSE k_table
             /\ k_search' = IF searched THEN Append(k_search, SearchValue(k_data))
                            ELSE k_search
             /\ k_phones' = IF searched /\ chk = "ok" /\ tbl # {}
                              THEN Append(k_phones, PhoneNumberFor(k_data))
                              ELSE k_phones
             /\ k_result' = IF caught # "None" /\ cl2 # "ok" THEN cl2
                            ELSE IF body # "None" THEN body
                            ELSE IF cl1 # "ok" THEN cl1
                            ELSE "returned"
             /\ k_pc' = IF k_result' = "returned" THEN "edi_open" ELSE "aborted"
    /\ UNCHANGED k_data
    /\ UNCHANGED notClinic

\* _process_edi_portal, process_item.py:122-123: open_edi_portal
EdiOpen ==
    /\ k_pc = "edi_open"
    /\ k_opens' = 1
    /\ k_closes' = 0
    /\ k_result' = "none"
    /\ k_pc' = "lookup"
    /\ UNCHANGED <<k_data, k_table, k_search, k_phones>>
    /\ UNCHANGED notClinic

\* edi_portal_lookup_contractor_id (edi_portal_functions.py:235-291), a step
\* of edi_portal_handler inside the try of process_item.py:126-133.
EdiLookupContractorId ==
    /\ k_pc = "lookup"
    /\ \E out \in AutomationOutcomes :
         /\ k_search' = IF out = "ok" THEN Append(k_search, SearchValue(k_data))
                        ELSE k_search
         /\ k_pc' = IF out = "ok" THEN "receiver" ELSE "edi_except"
         /\ k_result' = IF out = "ok" THEN k_result ELSE out
    /\ UNCHANGED <<k_data, k_table, k_phones, k_opens, k_closes>>
    /\ UNCHANGED notClinic

\* edi_portal_choose_receiver (edi_portal_functions.py:294-326)
EdiChooseReceiver ==
    /\ k_pc = "receiver"
    /\ \E out \in AutomationOutcomes :
         /\ k_phones' = IF out = "ok" THEN Append(k_phones, ReceiverPhoneFor(k_data))
                        ELSE k_phones
         /\ k_pc' = IF out = "ok" THEN "edi_close" ELSE "edi_except"
         /\ k_result' = IF out = "ok" THEN k_result ELSE out
    /\ UNCHANGED <<k_data, k_table, k_search, k_opens, k_closes>>
    /\ UNCHANGED notClinic

\* process_item.py:134-135: the handler returned; close_edi_portal, return.
EdiCloseOnReturn ==
    /\ k_pc = "edi_close"
    /\ k_closes' = k_closes + 1
    /\ \E cl \in CloseOutcomes :
         /\ k_pc' = IF cl = "ok" THEN "done" ELSE "edi_except"
         /\ k_result' = IF cl = "ok" THEN "receipt" ELSE cl
    /\ UNCHANGED <<k_data, k_table, k_search, k_phones, k_opens>>
    /\ UNCHANGED notClinic

\* process_item.py:136-138: except Exception: close_edi_portal, raise
\* ProcessError.
EdiExcept ==
    /\ k_pc = "edi_except"
    /\ k_closes' = k_closes + 1
    /\ \E cl \in CloseOutcomes :
         k_result' = IF cl = "ok" THEN "ProcessError" ELSE cl
    /\ k_pc' = "aborted"
    /\ UNCHANGED <<k_data, k_table, k_search, k_phones, k_opens>>
    /\ UNCHANGED notClinic

ClinicNext ==
    \/ CheckExternClinicData
    \/ CheckContractorData
    \/ EdiOpen
    \/ EdiLookupContractorId
    \/ EdiChooseReceiver
    \/ EdiCloseOnReturn
    \/ EdiExcept

SpecClinic == ClinicInit /\ [][ClinicNext]_vars

(***************************************************************************)
(* Claims about retry_on_connection_error                                  *)
(***************************************************************************)
\* The transient errors as the claims name them: pyodbc.OperationalError with
\* SQLSTATE 08001, 08S01 or HYT00.
IsTransientOutcome(e) ==
    e.cls = "OperationalError" /\ e.code \in {"08001", "08S01", "HYT00"}

IsErrorOutcome(e) == e.cls # "ok"

AllTransient(outs) == \A i \in 1..Len(outs) : IsTransientOutcome(outs[i])

\* C5: with max_attempts = 3 and an operation that raises a transient error on
\* every invocation, the wrapper invokes it exactly 3 times, sleeps delay after
\* the first failure and delay*backoff after the second, does not sleep after
\* the third, and raises a ProcessError whose cause is the third error.
C5_RetryBound ==
    (r_pc = "done" /\ max_attempts = 3 /\ AllTransient(r_outcomes))
        => /\ r_calls = 3
           /\ r_sleeps = <<delay, delay * backoff>>
           /\ r_result = [kind |-> "raise", cls |-> "ProcessError",
                          error |-> r_outcomes[3]]

C5_Witness ==
    /\ r_pc = "done" /\ max_attempts = 3 /\ AllTransient(r_outcomes)
    /\ delay = 2 /\ backoff = 2
    /\ r_sleeps = <<2, 4>>
    /\ r_result.kind = "raise" /\ r_result.cls = "ProcessError"

\* C6: a non-transient error of any invocation is the last thing that happens:
\* the wrapper ends by raising that same error (not wrapped), no sleep was made
\* for it (only the earlier transient failures slept) and the operation is not
\* invoked again.
C6_NonTransientPropagates ==
    \A i \in 1..Len(r_outcomes) :
        (IsErrorOutcome(r_outcomes[i]) /\ ~IsTransientOutcome(r_outcomes[i]))
            => /\ i = Len(r_outcomes)
               /\ r_calls = i
               /\ r_pc = "done"
               /\ r_result = [kind |-> "raise", cls |-> r_outcomes[i].cls,
                              error |-> r_outcomes[i]]
               /\ Len(r_sleeps) = i - 1

C6_Witness ==
    /\ r_pc = "done"
    /\ Len(r_outcomes) = 2
    /\ IsTransientOutcome(r_outcomes[1])
    /\ r_outcomes[2].cls = "OperationalError" /\ r_outcomes[2].code = "40001"
    /\ r_result.kind = "raise" /\ r_result.error = r_outcomes[2]
    /\ Len(r_sleeps) = 1

(***************************************************************************)
(* Claims about wait_for_control                                           *)
(***************************************************************************)
\* The target became available before `t` after the invocation and has stayed
\* available since.
AvailableFrom(t) == w_since # NotPresent /\ w_since <= t

\* C7 as the specification states it: the wait returns the control within
\* timeout + retry_interval whenever the target becomes available (and stays
\* so) at any time before the timeout, and otherwise raises TimeoutError, not
\* earlier than the timeout.
C7_Original ==
    WaitFinished =>
        IF w_since # NotPresent /\ w_since < w_timeout
          THEN w_pc = "returned" /\ w_clock <= w_timeout + w_interval
          ELSE w_pc = "timeout" /\ w_clock >= w_timeout

\* C7 (amended): the target is only seen at the polls, which start at the
\* invocation and after every sleep of retry_interval while less than timeout
\* has passed.  With a timeout above 0, a target that is available from
\* timeout - retry_interval on (or earlier) is returned; the poll that returns
\* started before the timeout; TimeoutError is never raised before the timeout,
\* and is raised within retry_interval (plus the last query) after it.
C7_PollingBound ==
    /\ (WaitFinished /\ w_timeout > 0
            /\ AvailableFrom(IF w_timeout > w_interval
                                THEN w_timeout - w_interval ELSE 0))
            => w_pc = "returned"
    /\ w_pc = "returned" => w_clock - w_q < w_timeout
    /\ w_pc = "timeout" => w_clock >= w_timeout
    /\ (w_pc = "timeout" /\ w_polls > 0)
            => w_clock - w_q - w_interval < w_timeout

\* The target appeared during the wait, exactly retry_interval before the
\* timeout, and was returned.
C7_Witness ==
    /\ w_pc = "returned"
    /\ w_timeout = 4 /\ w_interval = 2
    /\ w_since = w_timeout - w_interval
    /\ w_polls >= 2

\* C19: in wait_for_control a poll whose existence query raises counts as
\* "not found": the wait does not end at it.  A wait in which queries raised
\* still ends only by returning a control that is present or by TimeoutError
\* at or after the timeout, and returns when the target is available from
\* timeout - retry_interval on.
C19_QueryErrorIsNotFound ==
    /\ w_pc = "returned" => w_target = "present"
    /\ w_errors > 0 =>
         /\ w_pc = "timeout" => w_clock >= w_timeout
         /\ (WaitFinished /\ w_timeout > w_interval
                 /\ AvailableFrom(w_timeout - w_interval)) => w_pc = "returned"
    /\ w_errors <= w_polls

\* A query raised at one poll, and a later poll found the target.
C19_Witness ==
    /\ w_pc = "returned"
    /\ w_errors > 0
    /\ w_polls > w_errors

(***************************************************************************)
(* Claims about the waiting loops                                          *)
(***************************************************************************)
\* C20: there is no infinite wait.  Given that time advances and single
\* queries return, each of wait_for_control, wait_for_control_to_disappear,
\* the upload-progress loop and the receipt-download loop is eventually left,
\* by success or by error, whatever the external interface does.
C20_NoInfiniteWait ==
    <>(WaitFinished \/ DisFinished \/ UploadFinished \/ DownloadFinished)

\* The upload-progress loop was left because its budget ran out: the progress
\* text was found in every round.
C20_Witness ==
    /\ u_pc = "done"
    /\ ~u_element_gone
    /\ u_timeout = 0

(***************************************************************************)
(* Claims about edi_portal_handler                                         *)
(***************************************************************************)
MainSteps == 1..NumMain
RunEnded == h_pc \in {"done", "failed"}
SomeMainStepSkipped == \E k \in MainSteps : h_returned[k] = "True"
SomeMainStepRaised == \E k \in MainSteps : h_returned[k] = "raised"

IsForItem(row) == row.msg = HandlerSubject(h_item)

\* C3: edi_portal_send_message is not invoked for an item while the sent list
\* holds a message for that item that is less than 30 days old: no message
\* sent by a run was sent while such a row was already in the list.
C3_SendAtMostOnce ==
    \A j \in 1..Len(p_sent) :
        p_sent[j].run > 0 =>
            \A i \in 1..(j - 1) :
                ~(IsForItem(p_sent[i]) /\ p_sent[i].date > p_sent[j].date - Window)

\* C8: when a UI target awaited by a step of the run did not appear within its
\* timeout, the run is Failed (and with it no further step is invoked).
C8_TimeoutIsFatal == h_timedOut => h_pc = "failed"

(***************************************************************************)
(* Claims about the check-then-create guards                               *)
(***************************************************************************)
RobotDocs == {d \in BagToSet(g_docs) : d.by = "robot"}

\* C2: however often the guards are invoked for a patient, each creating
\* action succeeds at most once within 30 days: an artifact the robot stored
\* exists once, and two artifacts of the same kind for the same patient were
\* stored more than 30 days apart.
C2_AtMostOncePerWindow ==
    \A d \in RobotDocs :
        /\ CopiesIn(d, g_docs) = 1
        /\ \A e \in RobotDocs :
             (e # d /\ e.kind = d.kind /\ e.cpr = d.cpr /\ e.day >= d.day)
                 => e.day - d.day > 30

\* A guard invoked again found the artifact the robot had stored and skipped.
C2_Witness ==
    /\ g_last.queried /\ ~g_last.empty /\ ~g_last.invoked
    /\ \E d \in RobotDocs :
         d.kind = g_last.kind /\ d.cpr = g_item.cpr /\ g_now - d.day <= 30

\* C4: a guard whose existence query returned invokes its creating action if
\* and only if the result is empty, and with a non-empty result it leaves the
\* document store as it was; a guard whose query did not return creates nothing.
C4_CreateIffEmpty ==
    /\ g_last.queried => (g_last.invoked <=> g_last.empty)
    /\ (g_last.queried /\ ~g_last.empty) => ~g_last.changed
    /\ ~g_last.queried => (~g_last.invoked /\ ~g_last.changed)

\* A guard met an artifact stored by someone else and returned without
\* creating anything.
C4_Witness ==
    /\ g_last.queried /\ ~g_last.empty /\ ~g_last.invoked /\ ~g_last.changed
    /\ RobotDocs = {}
    /\ \E d \in BagToSet(g_docs) : d.kind = g_last.kind /\ d.by = "other"

(***************************************************************************)
(* Claims about process_item                                               *)
(***************************************************************************)
\* C9: close() is executed exactly once on every exit path of process_item,
\* also when the outcome report raises, and it is the last action of the run:
\* a run that has ended has called close() once and called nothing after it,
\* and a run that has not ended has not called close().
C9_CloseOnceLast ==
    /\ pi_pc = "ended" => (pi_closes = 1 /\ pi_last = "close")
    /\ pi_pc # "ended" => pi_closes = 0

\* The outcome report itself raised, and the run still ended with close().
C9_Witness ==
    /\ pi_pc = "ended"
    /\ pi_raised \in {"LookupError", "HTTPError", "JSONDecodeError"}
    /\ pi_closes = 1
    /\ pi_last = "close"

ReportErrors == {"LookupError", "HTTPError", "JSONDecodeError"}

\* C11: outcome reporting is best-effort: a failure of
\* update_dashboard_step_run is not propagated, so no run is ended by an
\* error of the report: neither is such an error the one that leaves the try
\* body, nor the one that leaves process_item.
C11_ReportBestEffort ==
    /\ pi_error.cls \notin ReportErrors
    /\ pi_raised \notin ReportErrors

Called(f) == \E i \in 1..Len(pi_trace) : pi_trace[i] = f

\* The try body was left by the BusinessError of check_extern_clinic_data:
\* the extern dentist of the patient has no phone number.
NoPhoneAbort ==
    /\ pi_error.cls = "BusinessError"
    /\ Called("check_extern_clinic_data")
    /\ ~Called("check_contractor_data")

\* C12: when the initialization checks find no phone number for the
\* destination clinic, the run aborts with a BusinessError before any later
\* stage: the EDI portal is not opened and no asset-preparation stage is
\* called; the report attempted is failed and re-runnable, the report handed
\* over carries the structured failure and the rerun configuration, and
\* unless the report or close() raises, BusinessError leaves process_item.
C12_NoPhoneAborts ==
    NoPhoneAbort =>
        /\ pi_pc \in {"except_business", "finally", "ended"}
        /\ ~Called("open_edi_portal")
        /\ ~Called("_process_images")
        /\ pi_pc \in {"finally", "ended"} =>
             /\ pi_attempt = [status |-> "failed", failure |-> "BusinessError",
                              rerun |-> TRUE]
             /\ pi_payload # NoPayload =>
                  pi_payload = [status |-> "failed", failure |-> "structured",
                                rerun_config |-> <<pi_item.id>>]
             /\ pi_raised \in {"BusinessError", "CloseError"} \cup ReportErrors
        /\ (pi_pc = "ended" /\ pi_raised \notin ReportErrors \cup {"CloseError"})
             => (pi_raised = "BusinessError" /\ pi_payload # NoPayload)

\* A run ended by the missing phone number, reported and closed.
C12_Witness ==
    /\ NoPhoneAbort
    /\ pi_pc = "ended"
    /\ pi_raised = "BusinessError"
    /\ pi_payload.failure = "structured"
    /\ pi_trace[Len(pi_trace)] = "close"

\* C13: for a work item whose destination contractor id is "477052" the
\* contractor lookup types the substitute contractor "485055", the receiver
\* is picked by the substitute phone "86135240", and the subject composed by
\* the handler and typed by the content step is the one naming the
\* substitute clinic; the original id is never typed.
C13_HasleTorvSubstitution ==
    h_item.contractorId = "477052" =>
        /\ h_returned[4] = "None" => p_query.lookup = "485055"
        /\ h_returned[5] = "None" => p_query.phone = "86135240"
        /\ h_returned[7] = "None" =>
             p_form = BaseSubject \o <<" ", "H", " ">> \o h_item.patient_name
        /\ h_pc \in {"main", "tail", "done"} =>
             ctx_subject = BaseSubject \o <<" ", "H", " ">> \o h_item.patient_name
        /\ p_query.lookup # "477052"

\* Lookup, receiver and content steps have all run for such an item.
C13_Witness ==
    /\ h_item.contractorId = "477052"
    /\ h_returned[4] = "None" /\ h_returned[5] = "None" /\ h_returned[7] = "None"
    /\ p_query = [lookup |-> "485055", phone |-> "86135240"]

MainStepFailed == h_pc = "failed" /\ h_error.step \in MainSteps

\* C14 as the specification states it: when a main step raises, the error
\* that leaves the pipeline is of the kind the step raised (h_error.cause
\* records what the step raised), with context that identifies the step.
C14_Original ==
    MainStepFailed =>
        /\ h_error.cls = h_error.cause
        /\ h_error.name # "<lambda>"

\* C14 (amended): when a main step raises, the error that leaves the
\* pipeline is a RuntimeError whose cause is the error the step raised; the
\* step is named in its message by the __name__ of the step callable, which
\* is "<lambda>" for every step.
C14_WrappedAsRuntimeError ==
    MainStepFailed =>
        /\ h_error.cls = "RuntimeError"
        /\ h_error.cause \in {"TimeoutError", "UnboundLocalError", "TypeError",
                              "Exception"}
        /\ h_error.name = "<lambda>"
        /\ h_returned[h_error.step] = "raised"

\* The contractor lookup found no search box and the handler was left.
C14_Witness ==
    /\ MainStepFailed
    /\ h_error.step = 4
    /\ h_error.cause = "UnboundLocalError"

\* The main loop was left without an error: the handler returned, or an
\* error of a tail step left it.
TailEntered == h_pc = "done" \/ (h_pc = "failed" /\ h_error.step > NumMain)

StageOrder ==
    <<"_validate_input_data", "_setup_context", "update_dashboard_step_run",
      "get_app", "_prepare_environment", "_open_and_initialize_patient",
      "_process_images", "_process_medical_record", "_process_edi_portal",
      "_finalize_edi_portal_document", "_created_administrative_note",
      "update_dashboard_step_run", "close">>

IsStage(f) == \E i \in 1..Len(StageOrder) : StageOrder[i] = f

\* C16: a run for a valid work item in which no external collaborator fails
\* calls the stages in their order, reports success and returns normally.
C16_HappyPath ==
    (pi_pc = "ended" /\ HasRequiredKeys(pi_item) /\ ~pi_extfail) =>
        /\ SelectSeq(pi_trace, IsStage) = StageOrder
        /\ pi_attempt.status = "success"
        /\ pi_raised = "None"

\* The work item of the current run lacks one of the two required keys.
MissingRequiredKey ==
    pi_runs > 0 /\ (~pi_item.has_ydernummer \/ ~pi_item.has_phone)

\* C17: a work item missing new_clinic_ydernummer or new_clinic_phone_number
\* is rejected by _validate_input_data before any other stage: the only
\* calls of the run are the validation, the failed report and close(); no
\* running report is sent; the report is failed, generic and without rerun;
\* and the run ends with an error, ProcessError unless the report or close()
\* raises.
C17_ValidationRejects ==
    MissingRequiredKey =>
        /\ pi_error = [cls |-> "ValueError", json |-> FALSE]
        /\ pi_trace[1] = "_validate_input_data"
        /\ \A i \in 2..Len(pi_trace) :
             pi_trace[i] \in {"update_dashboard_step_run", "close"}
        /\ pi_attempt.status # "running"
        /\ pi_pc \in {"finally", "ended"} =>
             /\ pi_attempt = [status |-> "failed", failure |-> "ValueError",
                              rerun |-> FALSE]
             /\ pi_payload # NoPayload =>
                  pi_payload = [status |-> "failed", failure |-> "generic",
                                rerun_config |-> <<>>]
        /\ pi_pc = "ended" =>
             /\ pi_raised # "None"
             /\ pi_raised \notin (ReportErrors \cup {"CloseError"})
                  => pi_raised = "ProcessError"

\* An item with the clinic number but without the phone number was rejected.
C17_Witness ==
    /\ pi_pc = "ended"
    /\ pi_item.has_ydernummer /\ ~pi_item.has_phone
    /\ pi_trace = <<"_validate_input_data", "update_dashboard_step_run", "close">>
    /\ pi_raised = "ProcessError"
    /\ pi_payload.failure = "generic"

LaterStepReturned(i) == i \in 2..NumMain /\ h_returned[i] \notin {"no", "raised"}

PassedOver(j) == j \in 2..NumMain /\ skip_steps /\ h_invoked[j] = 0

\* The steps that prepare the message: contractor lookup, receiver selection,
\* content entry, file upload.
PreparationSteps == {4, 5, 7, 9}

\* C22: within one run the steps execute in the declared order.  A step is
\* invoked only after every earlier step that was not passed over has
\* returned without error; no step is invoked twice; edi_portal_send_message
\* (step 12) is invoked only after the Gate returned False and the lookup,
\* the receiver selection, the content entry and the upload have returned in
\* the same run.
C22_StrictOrder ==
    /\ \A i \in 1..NumSteps : h_invoked[i] <= 1
    /\ \A i \in 1..NumSteps : \A j \in 1..(i - 1) :
         h_invoked[i] = 1 =>
            \/ PassedOver(j)
            \/ h_invoked[j] = 1 /\ h_returned[j] \notin {"no", "raised"}
    /\ h_invoked[12] = 1 =>
         /\ h_returned[1] = "False"
         /\ \A j \in PreparationSteps : h_returned[j] = "None"

\* The message was sent in a run, and the run went on to the receipt step.
C22_Witness ==
    /\ h_invoked[12] = 1
    /\ h_returned[12] = "None"
    /\ h_invoked[13] = 1

(***************************************************************************)
(* Further claims about process_item                                       *)
(***************************************************************************)
\* C23: a run in which an initialization check raised a BusinessError hands
\* over a failed report with the structured code and message of that error
\* and a rerun configuration, and process_item ends by raising the
\* BusinessError.
C23_BusinessFailureReported ==
    (pi_pc = "ended" /\ pi_error.cls = "BusinessError") =>
        /\ pi_payload = [status |-> "failed", failure |-> "structured",
                         rerun_config |-> <<pi_item.id>>]
        /\ pi_raised = "BusinessError"

(***************************************************************************)
(* Claims about cpr_to_birthdate                                           *)
(***************************************************************************)
\* The argument is exactly ten decimal digits.
TenDecimalDigits(text) ==
    Len(text) = 10 /\ \A i \in 1..10 : text[i] \in {"0", "1", "2", "3", "4", "5", "6", "7", "8", "9"}

\* The century table as the claim states it.
TableYear(ssss, yy) ==
    IF ssss \in (0..1999) \cup (5000..8999)
      THEN (IF yy >= 37 THEN 1900 + yy ELSE 2000 + yy)
    ELSE IF ssss \in 2000..4999 THEN 1900 + yy
    ELSE (IF yy >= 37 THEN 1800 + yy ELSE 2000 + yy)

\* Day d of month m exists in year y.
IsCalendarDate(y, m, d) ==
    /\ m \in 1..12
    /\ d >= 1
    /\ d <= (CASE m \in {1, 3, 5, 7, 8, 10, 12} -> 31
               [] m \in {4, 6, 9, 11} -> 30
               [] OTHER -> IF y % 400 = 0 \/ (y % 4 = 0 /\ y % 100 # 0) THEN 29 ELSE 28)

\* C24: cpr_to_birthdate raises ValueError for every argument that is not
\* exactly ten decimal digits; for DDMMYYSSSS naming a day that exists it
\* returns day DD, month MM and the year of the century table; "0101370000"
\* gives 1937-01-01 and "0101300000" gives 2030-01-01.
C24_BirthdateDecoding ==
    c_pc = "done" =>
        /\ ~TenDecimalDigits(ssn) => c_result.kind = "ValueError"
        /\ (c_damage = "none" /\ IsCalendarDate(TableYear(c_ssss, c_yy), c_mm, c_dd)) =>
              c_result = [kind |-> "date", year |-> TableYear(c_ssss, c_yy),
                          month |-> c_mm, day |-> c_dd]
        /\ ssn = <<"0", "1", "0", "1", "3", "7", "0", "0", "0", "0">> =>
              c_result = [kind |-> "date", year |-> 1937, month |-> 1, day |-> 1]
        /\ ssn = <<"0", "1", "0", "1", "3", "0", "0", "0", "0", "0">> =>
              c_result = [kind |-> "date", year |-> 2030, month |-> 1, day |-> 1]

\* 29 February of a year written as 00 with a personal number of the 2000s
\* was decoded.
C24_Witness ==
    /\ c_pc = "done"
    /\ ssn = <<"2", "9", "0", "2", "0", "0", "0", "0", "0", "0">>
    /\ c_result = [kind |-> "date", year |-> 2000, month |-> 2, day |-> 29]

(***************************************************************************)
(* Further claims about the results of edi_portal_handler                  *)
(***************************************************************************)
\* C25: a run of edi_portal_handler ends by returning: the path of the
\* renamed receipt, or None when a step failed; no error leaves the handler.
C25_NoneOnFailure ==
    RunEnded =>
        /\ h_pc = "done"
        /\ h_error = NoStepError
        /\ h_result \in {RenamedReceipt(h_item), NoPath}
        /\ (\E i \in 1..NumSteps : h_returned[i] = "raised") => h_result = NoPath

\* C26: the subject edi_portal_handler computes (searched for by the Gate and
\* by the receipt step) equals the subject edi_portal_add_content types into
\* the message: once the content step of a run has returned, the form holds
\* EdiContext.subject, and so does every message the run sends.
C26_SameSubject ==
    /\ h_returned[7] = "None" => p_form = ctx_subject
    /\ \A k \in 1..Len(p_sent) :
         (h_returned[12] = "None" /\ p_sent[k].run = h_runs) =>
             p_sent[k].msg = ctx_subject

\* C27: the name the rename step gives the receipt matches the file name
\* filter of _finalize_edi_portal_document for the same work item: the
\* receipt a run returns is one the existence query of a later run selects.
C27_ReceiptNameMatchesFilter ==
    h_pc = "done" => LikeContains(ReceiptFilenameFilter(h_item), h_result)

\* A row of the sent list that a run for this work item sent (run is 0 for
\* the row that was in the list before: a message for another patient).
SentForThisPatient(row) == row.run # 0

\* C28: the Gate returns True only when the sent list holds a message of the
\* last 30 days that was sent for the patient of the work item; a message
\* that belongs to another patient never makes it return True.
C28_GateMatchesPatient ==
    h_returned[1] = "True" =>
        \E k \in 1..Len(p_sent) :
            /\ SentForThisPatient(p_sent[k])
            /\ p_sent[k].date > p_now - Window

\* C29: in a run whose Gate returned True, the receipt step (run against the
\* same sent list with the same subject) finds a matching row: it does not
\* fail with RuntimeError("Message not sent.").
C29_GateTrueReceiptFound ==
    (h_returned[1] = "True" /\ h_returned[13] = "raised") =>
        h_error # [step |-> 13, cls |-> "RuntimeError", cause |-> "RuntimeError",
                   name |-> "<lambda>"]

(***************************************************************************)
(* Terminal status of a run (process_item.py:259-282)                      *)
(***************************************************************************)
IsTerminalStatus(status) == status \in {"success", "failed"}

\* The terminal statuses the dashboard received in the run, in order.
TerminalDelivered == SelectSeq(pi_delivered, IsTerminalStatus)

\* C31: a run of process_item delivers at most one terminal status (success
\* or failed) to the dashboard, never both, and the run raises if and only
\* if the terminal status it delivered is failed.
C31_OneTerminalStatus ==
    pi_pc = "ended" =>
        /\ Len(TerminalDelivered) <= 1
        /\ (pi_raised # "None") <=> (TerminalDelivered = <<"failed">>)

\* C32: every status report issued while a work item is processed is keyed
\* by that item's own context values (subject identifier and item id): none
\* is issued before _setup_context has run for the item, so none uses values
\* left over from an item processed before.
C32_ReportKeyedByItem ==
    pi_attempt # NoAttempt => pi_key = pi_item.id

\* C33: edi_portal_upload_files returns normally only after the
\* upload-in-progress indicator has been observed absent; a budget that runs
\* out with the indicator still present makes the step fail, the function
\* does not return.
C33_UploadReturnsOnlyWhenGone ==
    u_pc = "done" => u_element_gone

\* check_extern_clinic_data is the call that ended _open_and_initialize_patient.
ExternClinicCheckFailed ==
    /\ pi_last = "_open_and_initialize_patient"
    /\ pi_trace[Len(pi_trace)] = "check_extern_clinic_data"

\* C34: when the system of record returns no extern-clinic record for the
\* patient, or a record without phone number, check_extern_clinic_data fails
\* with a BusinessError (reported as re-runnable), not with a technical
\* failure.
C34_ExternClinicBusinessError ==
    ExternClinicCheckFailed =>
        /\ pi_error.cls = "BusinessError"
        /\ pi_pc = "except_business"

\* C35 as stated: in wait_for_control_to_disappear a poll whose existence
\* query raises counts as "not found", so the wait ends successfully at that
\* poll: once a query has raised, the wait has returned.
C35_QueryErrorEndsWait ==
    d_errors > 0 => d_pc = "returned"

\* C35, amended: a poll whose existence query raises is logged and the loop
\* goes on to the sleep and the next poll.  The wait does not end at that
\* poll: it ends only by returning True at a poll that observed the element
\* absent, or by TimeoutError at or after the deadline, and never with the
\* error of the query.
C35_QueryErrorKeepsPolling ==
    /\ d_pc \in {"test", "query", "sleep", "returned", "timeout"}
    /\ d_result \in {"none", "True", "TimeoutError"}
    /\ d_errors <= d_polls
    /\ d_pc = "returned" => (d_target = "absent" /\ d_polls > d_errors)
    /\ (d_errors > 0 /\ d_pc = "timeout") => (d_clock >= d_timeout /\ ~d_seenAbsent)

\* A query raised at one poll, the wait went on and a later poll saw the
\* element absent.
C35_Witness ==
    /\ d_pc = "returned"
    /\ d_errors > 0

(***************************************************************************)
(* Further claims about retry_on_connection_error                          *)
(***************************************************************************)
RECURSIVE Power(_, _)
Power(b, n) == IF n = 0 THEN 1 ELSE b * Power(b, n - 1)

\* The wrapper returned the value of an invocation of the wrapped function.
ReturnedFromCall == r_pc = "done" /\ r_result.kind = "return" /\ r_calls > 0

\* C36: when the wrapped operation fails with transient errors on attempts
\* 1..k-1 and succeeds on attempt k <= max_attempts, the wrapper returns the
\* result of attempt k, the operation has been invoked exactly k times, and
\* the sleeps are delay * backoff^(i-1) after failed attempt i, i = 1..k-1.
C36_RetrySchedule ==
    ReturnedFromCall =>
        LET k == r_calls IN
        /\ k <= max_attempts
        /\ Len(r_outcomes) = k
        /\ r_outcomes[k].cls = "ok"
        /\ \A i \in 1..(k - 1) : IsConnectionError(r_outcomes[i])
        /\ r_result.value = r_outcomes[k].id
        /\ Len(r_sleeps) = k - 1
        /\ \A i \in 1..(k - 1) : r_sleeps[i] = delay * Power(backoff, i - 1)

\* Two transient failures, then success at the third attempt, with a backoff
\* that changes the delay.
C36_Witness ==
    /\ ReturnedFromCall
    /\ r_calls = 3
    /\ backoff = 2

(***************************************************************************)
(* Claims about the extern clinic and the EDI portal session               *)
(***************************************************************************)
\* C37: for the special-case contractor ids "477052" and "470678" the
\* substituted pair (contractor "485055", phone "86135240") is used by the
\* contractor check, the contractor lookup and the receiver selection, and
\* the clinic's original phone number is never consulted: a missing original
\* phone number does not abort the run.
C37_SpecialCaseSubstitution ==
    IsSpecialCase(k_data) =>
        /\ \A i \in 1..Len(k_search) : k_search[i] = "485055"
        /\ \A i \in 1..Len(k_phones) : k_phones[i] = "86135240"
        /\ k_result # "phone_not_set"

\* A function that opens the EDI portal has been left.
PortalFunctionLeft == k_pc \in {"edi_open", "aborted", "done"}

\* C38: every open_edi_portal call made by check_contractor_data or
\* _process_edi_portal is matched by exactly one close_edi_portal call
\* before the function exits, on every exit path.
C38_OpenMatchedByOneClose ==
    PortalFunctionLeft => k_closes = k_opens

\* C39: for every configuration of retry_on_connection_error (any
\* max_attempts, including values below 1) the wrapper returns normally only
\* with a value produced by a successful invocation of the wrapped
\* operation: it never returns without having invoked the operation.
C39_ReturnsOnlyFromCall ==
    (r_pc = "done" /\ r_result.kind = "return") =>
        /\ r_calls > 0
        /\ r_outcomes[r_calls].cls = "ok"
        /\ r_result.value = r_outcomes[r_calls].id

====
